---- MODULE Spec2Model ----
(***************************************************************************)
(* State-machine model of the MCP session runtime of                       *)
(* node-red-contrib-xiaozhi-mcp-ted:                                       *)
(*   lib/tool-manager.js      (ToolManager: registry, dispatcher, queue)   *)
(*   lib/message-handler.js   (MessageHandler: pending requests, routing)  *)
(*   lib/websocket-mcp.js     (WebSocketMCP: connection state machine)     *)
(*   lib/reconnect-manager.js (ReconnectManager: reconnection cycle)       *)
(* One action per handler, timer callback or promise continuation.  A      *)
(* continuation that runs in the microtask queue right after the event     *)
(* that settles its promise is part of that event's action: nothing else   *)
(* can run in between.                                                     *)
(***************************************************************************)
EXTENDS Integers, Sequences, FiniteSets, TLC

(***************************************************************************)
(* Bounds of the model.                                                    *)
(***************************************************************************)
\* executeTool calls made in one behaviour
MaxCalls == 3
\* registerTool calls made in one behaviour
MaxRegs == 2
\* largest concurrency ceiling drawn for maxConcurrentExecutions
MaxCeiling == 1
\* executeTool calls and ceiling of the behaviours in which two calls run while
\* two wait in the queue
QueueCalls == 4
QueueCeiling == 2

\* request promises alive at the same time (slots of the request table)
MaxReqs == 2
\* WebSocket objects alive at the same time, under the reconnection controller
MaxSock == 2
\* WebSocket objects alive at the same time, where sockets are not the subject
FewSocks == 1
\* reconnect timers left armed with no handle referring to them
MaxOrphans == 1
\* largest maxReconnectAttempts drawn for the reconnection controller
MaxAttemptsCfg == 2

\* tool names used by the callers
Names == {"echo"}
\* input schemas: {} (no validation),
\* {type: object, required: [msg], properties: {msg: {type: string}}}
\* and its property schema {type: string}
Schemas == {"none", "reqMsg", "str"}
\* the schema each name is registered with
SchemaFor(name) == IF name = "echo" THEN "reqMsg" ELSE "none"
\* call arguments: {}, {msg: "hi"}, {msg: 5} and the string "hi"
ArgVals == {"empty", "withMsg", "numMsg", "hi"}

VARIABLES
  \* ---- ToolManager ----
  tools,                    \* this.tools: name -> definition (def = 0: absent)
  regCount,                 \* ToolDefinition objects created so far
  lastReg,                  \* history: per name, the definition the last registerTool created (def = 0
                            \* after unregisterTool) and whether the name was registered at that time
  calls,                    \* the executeTool invocations and their position
  executionQueue,           \* this.executionQueue
  isProcessingQueue,        \* this.isProcessingQueue
  maxConcurrentExecutions,  \* this.maxConcurrentExecutions
  currentExecutions,        \* this.currentExecutions
  immediates,               \* setImmediate(() => this._processQueue()) callbacks not yet run
  \* ---- MessageHandler ----
  reqs,                     \* the promises returned by sendRequest: state, id, timer, send in flight, age
  pendingRequests,          \* this.pendingRequests: id -> the request whose resolve/reject/timeout it holds (0: absent)
  \* ---- WebSocketMCP ----
  connected,                \* this.connected
  connecting,               \* this.connecting
  connectionState,          \* this.connectionState
  ws,                       \* this.ws (0: null)
  sock,                     \* readyState of every WebSocket object created
  waitOpen,                 \* per socket: the caller of the connect() awaiting _waitForConnection ("none": nobody)
  heartbeatInterval,        \* this.heartbeatInterval is armed
  pong,                     \* lastPongTime: "never" (0), "fresh", or "stale" (older than pingTimeout);
                            \* "never-late": 0, and the connection has been open for longer than pingTimeout
  debounceTimer,            \* the timer of this._debouncedReconnect is armed
  micro,                    \* promise continuations of connect() not yet run
  \* ---- configuration ----
  autoReconnect,            \* this.config.autoReconnect of the session
  heartbeatOption,          \* the heartbeatInterval the caller gave last (constructor or updateConfig)
  configHeartbeatInterval,  \* this.config.heartbeatInterval of the session, in ms
  configRequestTimeout,     \* this.config.requestTimeout of the session, in ms
  managerAutoReconnect,     \* config.autoReconnect of the object the reconnection controller
                            \* took from the session when it was constructed
  handlerRequestTimeout,    \* this.requestTimeout of the message handler, in ms
  \* ---- ReconnectManager ----
  maxAttempts,              \* this.maxAttempts
  isReconnecting,           \* this.isReconnecting
  reconnectAttempts,        \* this.reconnectAttempts
  reconnectTimer,           \* the timer this.reconnectTimer refers to is armed
  orphanTimers,             \* armed reconnect timers this.reconnectTimer no longer refers to
  \* ---- history ----
  manual,                   \* "no", or since the last disconnect(): "disconnected", then "userconn" once
                            \* an explicit connect() has connected again
  owed,                     \* "yes": an unexpected closure of a connected session has not yet been
                            \* followed by a connect() call of the reconnection controller;
                            \* "cancelled": disconnect() was called since; "no" otherwise
  cycleCalls,               \* connect() calls of the controller since its last reset()
  afterDisconnect,          \* history: disconnect() has returned and connect() has not been called since
  everConnected,            \* history: connect() has set this.connected = true at least once
  reported,                 \* the `attempts` fields of the 'reconnected' events emitted by the
                            \* latest step of the session
  cancelled,                \* TRUE from a cancel() by the application until the session next asks
                            \* the controller for a scheduling (debounced reconnect, forceReconnect)
  op,                       \* the last step taken, when it is a response frame, a request timeout,
                            \* a connect() call of the reconnection controller, a connect() call
                            \* of the application (arg 1: rejected with ALREADY_CONNECTING), or a
                            \* heartbeat tick (arg 1: it forced a disconnect)
  settled,                  \* the requests completed by the last step, each with its outcome
  emitted,                  \* the error and reconnection events emitted by the last step, in order
  backoff,                  \* the delay computation of scheduleReconnect: baseDelay, maxDelay, the
                            \* attempt counter, the attempt number handed to calculateBackoff and
                            \* the delay it returned, in hundredths of a millisecond
  inbound,                  \* the requests received from the server, in order of arrival: the position
                            \* of their handler and the frames it handed to ws.send
  invalidMessages           \* this.stats.invalidMessages of the message handler

toolVars == <<tools, regCount, lastReg, calls, executionQueue, isProcessingQueue,
              maxConcurrentExecutions, currentExecutions, immediates>>

routerVars == <<reqs, pendingRequests>>

connVars == <<connected, connecting, connectionState, ws, sock, waitOpen,
              heartbeatInterval, pong, debounceTimer, micro>>

reconVars == <<autoReconnect, maxAttempts, isReconnecting, reconnectAttempts,
               reconnectTimer, orphanTimers>>

configVars == <<heartbeatOption, configHeartbeatInterval, configRequestTimeout, managerAutoReconnect,
                handlerRequestTimeout>>

histVars == <<manual, owed, cycleCalls, cancelled, reported, everConnected, afterDisconnect>>

sessionVars == <<routerVars, connVars, reconVars, histVars, configVars>>

inboundVars == <<inbound, invalidMessages>>

delayVars == <<backoff>>

vars == <<toolVars, sessionVars, op, settled, emitted, inboundVars, delayVars>>

(***************************************************************************)
(* ToolManager                                                             *)
(***************************************************************************)
NoOp == [name |-> "other", arg |-> 0]

\* the executeTool calls of one behaviour
Calls == DOMAIN calls

NoTool == [def |-> 0, description |-> "", schema |-> "none", callCount |-> 0]

FreeCall == [state |-> "free", name |-> "", args |-> "empty", def |-> 0,
             viaQueue |-> FALSE, passed |-> "none", result |-> "none"]

\* the schemas: type ("" when absent), required and properties (name, schema)
SchemaDef(schema) ==
  CASE schema = "none" -> [type |-> "", required |-> {}, properties |-> {}]
    [] schema = "reqMsg" -> [type |-> "object", required |-> {"msg"},
                             properties |-> {<<"msg", "str">>}]
    [] schema = "str" -> [type |-> "string", required |-> {}, properties |-> {}]

\* the values: what typeof (array for arrays) says and their fields (name, value)
DataDef(data) ==
  CASE data = "empty" -> [type |-> "object", fields |-> {}]
    [] data = "withMsg" -> [type |-> "object", fields |-> {<<"msg", "hi">>}]
    [] data = "numMsg" -> [type |-> "object", fields |-> {<<"msg", "five">>}]
    [] data = "hi" -> [type |-> "string", fields |-> {}]
    [] data = "five" -> [type |-> "number", fields |-> {}]

\* validateJsonSchema(schema, data): "valid", "invalid" (errors were
\* collected), or "TypeError": `field in data` throws when data is not an
\* object, which the type check before it only records as an error.
RECURSIVE ValidateJsonSchema(_, _)
ValidateJsonSchema(schema, data) ==
  LET sc == SchemaDef(schema)
      d == DataDef(data)
      typeError == sc.type # "" /\ d.type # sc.type
      inThrows == sc.required # {} /\ d.type \notin {"object", "array"}
      missing == \E f \in sc.required : ~\E p \in d.fields : p[1] = f
      nested == IF d.type \in {"object", "array"}
                THEN {ValidateJsonSchema(x[1][2], x[2][2]) :
                        x \in {y \in sc.properties \X d.fields : y[1][1] = y[2][1]}}
                ELSE {}
  IN IF inThrows \/ "TypeError" \in nested THEN "TypeError"
     ELSE IF typeError \/ missing \/ "invalid" \in nested THEN "invalid"
     ELSE "valid"

\* _validateToolArguments: an empty schema is not validated; collected errors
\* are thrown as INVALID_TOOL_ARGUMENTS; what validateJsonSchema throws passes
\* through.
ValidateToolArguments(schema, args) ==
  IF schema = "none" THEN "valid"
  ELSE IF ValidateJsonSchema(schema, args) = "invalid" THEN "INVALID_TOOL_ARGUMENTS"
  ELSE ValidateJsonSchema(schema, args)

ValidToolArguments(schema, args) == ValidateToolArguments(schema, args) = "valid"

\* this.tools.set(name, tool)
RegistrySet_KeepExisting(reg, name, tool) ==
  IF reg[name].def # 0 THEN reg ELSE [reg EXCEPT ![name] = tool]

RegistrySet(reg, name, tool) == [reg EXCEPT ![name] = tool]

\* this.currentExecutions >= this.maxConcurrentExecutions
CeilingReached_OffByOne(cur) == cur > maxConcurrentExecutions

CeilingReached(cur) == cur >= maxConcurrentExecutions

\* this.executionQueue.shift(): the index of the entry taken
DequeueIndex_Last(q) == Len(q)

DequeueIndex(q) == 1

RemoveAt(q, i) == [k \in 1..(Len(q) - 1) |-> IF k < i THEN q[k] ELSE q[k + 1]]

\* What the callback's promise settles with: a returned value, a thrown or
\* rejected Error, or a thrown or rejected value that has no properties
\* (undefined, null: `reject()` without an argument).
CallbackOutcomes == {"ok", "TOOL_ERROR", "NULLISH"}

\* The catch block of executeTool: error.message is read for the log and the
\* event before ToolResponse.error(error) is built, which throws a TypeError
\* out of the catch block when the caught value is undefined or null.
ExecuteToolCatch(err) == IF err = "NULLISH" THEN "REJECTED" ELSE err

\* what the promise of executeTool settles with
ExecuteToolReturn(res) == IF res = "ok" THEN "ok" ELSE ExecuteToolCatch(res)

\* the 'tool-error' event of the catch block
ToolErrorEvent(res) ==
  IF ExecuteToolReturn(res) \in {"ok", "REJECTED"} THEN <<>> ELSE <<"tool-error">>

\* The dispatcher state the queue processing reads and writes.
DispatcherState ==
  [cur |-> currentExecutions, q |-> executionQueue, proc |-> isProcessingQueue,
   calls |-> calls, imm |-> immediates]

\* _executeToolInternal up to its first await: the slot is taken and the
\* definition looked up by the caller is the one that will be validated and run.
AdmitCall(s, c, viaQ) ==
  [s EXCEPT !.cur = @ + 1,
            !.calls[c].state = "admitted",
            !.calls[c].def = tools[s.calls[c].name].def,
            !.calls[c].viaQueue = viaQ]

\* the finally block of _processQueue
ProcessQueueFinally(s) ==
  LET s1 == [s EXCEPT !.proc = FALSE]
  IN IF s1.q # <<>> /\ ~CeilingReached(s1.cur)
     THEN [s1 EXCEPT !.imm = @ + 1]
     ELSE s1

\* _processQueue up to its await
ProcessQueue(s) ==
  IF s.proc \/ s.q = <<>> THEN s
  ELSE IF CeilingReached(s.cur) THEN s
  ELSE LET i == DequeueIndex(s.q)
           h == s.q[i]
           s1 == [s EXCEPT !.proc = TRUE, !.q = RemoveAt(s.q, i)]
       IN IF tools[s.calls[h].name].def = 0
          THEN \* TOOL_NOT_FOUND is thrown, the queued promise is rejected and
               \* executeTool turns the rejection into an error response
               ProcessQueueFinally(
                 [s1 EXCEPT !.calls[h].state = "done",
                            !.calls[h].result = "TOOL_NOT_FOUND"])
          ELSE AdmitCall(s1, h, TRUE)

\* the finally block of _executeToolInternal, then what the caller of
\* _executeToolInternal sees: executeTool returns the response (or the error
\* response of its catch block) to its caller; _processQueue is resumed later.
FinishInternal(s, c, res) ==
  LET s1 == ProcessQueue([s EXCEPT !.cur = @ - 1])
  IN IF s.calls[c].viaQueue
     THEN [s1 EXCEPT !.calls[c].state = "finishing", !.calls[c].result = res]
     ELSE [s1 EXCEPT !.calls[c].state = "done",
                     !.calls[c].result = ExecuteToolReturn(res)]

SetDispatcher(s) ==
  /\ currentExecutions' = s.cur
  /\ executionQueue' = s.q
  /\ isProcessingQueue' = s.proc
  /\ calls' = s.calls
  /\ immediates' = s.imm

NextCall == Cardinality({c \in Calls : calls[c].state # "free"}) + 1

\* sendMessage accepts a frame: connected, with an open socket
CanSend == connected /\ ws # 0 /\ sock[ws] = "OPEN"

\* _handleToolCall: the payload of the reply, from what executeTool settled
\* with; a rejection is caught and answered like a failed tool.
ToolCallReply(res) == IF res = "ok" THEN "result" ELSE "result-isError"

\* _sendSuccessResponse / _sendErrorResponse / sendNotification: the frame is
\* handed to ws.send, or sendMessage rejects with NOT_CONNECTED, which the
\* catch handler of the sender logs.
SendFrames(r, frames) ==
  IF CanSend THEN [r EXCEPT !.sent = @ \o frames] ELSE [r EXCEPT !.state = "unsent"]

\* _handleToolCall after `await executeTool(...)`: the handlers whose call has
\* settled in this step send their reply.
ToolCallReturns(inb) ==
  [i \in 1..Len(inb) |->
     IF inb[i].state = "awaiting" /\ calls'[inb[i].call].state = "done"
     THEN SendFrames([inb[i] EXCEPT !.state = "returned", !.conn = 0],
                     <<ToolCallReply(calls'[inb[i].call].result)>>)
     ELSE inb[i]]

\* the values a caller passes to registerTool: names and descriptions that are
\* non-empty strings, the empty string, and a value that is not a string
NameArgs == Names \cup {"", "notAString"}
Descriptions == {"d1", "d2", "", "notAString"}
\* inputSchema: undefined, {} or the schema with a required member
SchemaArgs == {"undefined", "none", "reqMsg"}
Callbacks == {"function", "notCallable"}

NoReg == [def |-> 0, over |-> FALSE, description |-> "", schema |-> "none"]

\* the parameter checks of registerTool: the error thrown, "none" if none
RegisterToolError_NameOnly(name, description, callback) ==
  IF name \in {"", "notAString"} THEN "INVALID_TOOL_NAME" ELSE "none"

RegisterToolError(name, description, callback) ==
  IF name \in {"", "notAString"} THEN "INVALID_TOOL_NAME"
  ELSE IF description \in {"", "notAString"} THEN "INVALID_TOOL_DESCRIPTION"
  ELSE IF callback # "function" THEN "INVALID_TOOL_CALLBACK"
  ELSE "none"

\* inputSchema || {}
SchemaOrEmpty(inputSchema) == IF inputSchema = "undefined" THEN "none" ELSE inputSchema

\* this.tools.has(name)
RegistryHas(reg, name) == name \in Names /\ reg[name].def # 0

\* registerTool(name, description, inputSchema, callback); op.arg 1: it threw
RegisterToolWith(name, description, inputSchema, callback) ==
  /\ settled' = {}
  /\ UNCHANGED <<sessionVars, delayVars>>
  /\ IF RegisterToolError(name, description, callback) # "none"
     THEN /\ op' = [name |-> "registerTool", arg |-> 1]
          /\ emitted' = <<>>
          /\ UNCHANGED <<tools, regCount, lastReg>>
     ELSE /\ op' = [name |-> "registerTool", arg |-> 0]
          /\ regCount < MaxRegs
          /\ regCount' = regCount + 1
          /\ tools' = RegistrySet(tools, name,
                                  [def |-> regCount + 1, description |-> description,
                                   schema |-> SchemaOrEmpty(inputSchema), callCount |-> 0])
          /\ lastReg' = [lastReg EXCEPT ![name] =
                           [def |-> regCount + 1, over |-> (@.def # 0),
                            description |-> description,
                            schema |-> SchemaOrEmpty(inputSchema)]]
          /\ emitted' = <<"tool-registered">>
  /\ UNCHANGED <<calls, executionQueue, isProcessingQueue, maxConcurrentExecutions,
                 currentExecutions, immediates>>
  /\ inbound' = ToolCallReturns(inbound)
  /\ UNCHANGED invalidMessages

\* registerTool with valid parameters
RegisterTool(name) == RegisterToolWith(name, "d1", SchemaFor(name), "function")

\* unregisterTool(name); op.arg 1: it returned false
UnregisterTool_AlwaysTrue(name) ==
  /\ settled' = {}
  /\ UNCHANGED <<sessionVars, delayVars>>
  /\ op' = [name |-> "unregisterTool", arg |-> 0]
  /\ IF ~RegistryHas(tools, name)
     THEN /\ emitted' = <<>>
          /\ UNCHANGED <<tools, lastReg>>
     ELSE /\ tools' = [tools EXCEPT ![name] = NoTool]
          /\ lastReg' = [lastReg EXCEPT ![name] = NoReg]
          /\ emitted' = <<"tool-unregistered">>
  /\ UNCHANGED <<regCount, calls, executionQueue, isProcessingQueue,
                 maxConcurrentExecutions, currentExecutions, immediates>>
  /\ inbound' = ToolCallReturns(inbound)
  /\ UNCHANGED invalidMessages

UnregisterTool(name) ==
  /\ settled' = {}
  /\ UNCHANGED <<sessionVars, delayVars>>
  /\ IF ~RegistryHas(tools, name)
     THEN /\ op' = [name |-> "unregisterTool", arg |-> 1]
          /\ emitted' = <<>>
          /\ UNCHANGED <<tools, lastReg>>
     ELSE /\ op' = [name |-> "unregisterTool", arg |-> 0]
          /\ tools' = [tools EXCEPT ![name] = NoTool]
          /\ lastReg' = [lastReg EXCEPT ![name] = NoReg]
          /\ emitted' = <<"tool-unregistered">>
  /\ UNCHANGED <<regCount, calls, executionQueue, isProcessingQueue,
                 maxConcurrentExecutions, currentExecutions, immediates>>
  /\ inbound' = ToolCallReturns(inbound)
  /\ UNCHANGED invalidMessages

\* getToolsListResponse(): the entries of tools/list
GetToolsListResponse(reg) ==
  {[name |-> n, description |-> reg[n].description, inputSchema |-> reg[n].schema] :
     n \in {m \in Names : reg[m].def # 0}}

\* executeTool(name, args), up to its first await
ExecuteToolStart(name, args) ==
  /\ op' = NoOp
  /\ settled' = {}
  /\ UNCHANGED <<sessionVars, delayVars>>
  /\ NextCall \in Calls
  /\ LET c == NextCall
         s0 == [DispatcherState EXCEPT
                  !.calls[c] = [FreeCall EXCEPT !.name = name, !.args = args]]
     IN IF tools[name].def = 0
        THEN /\ SetDispatcher([s0 EXCEPT !.calls[c].state = "done",
                                         !.calls[c].result = "TOOL_NOT_FOUND"])
             /\ emitted' = <<"tool-error">>
        ELSE IF CeilingReached(currentExecutions)
        THEN /\ SetDispatcher([s0 EXCEPT !.calls[c].state = "queued",
                                         !.calls[c].viaQueue = TRUE,
                                         !.q = Append(@, c)])
             /\ emitted' = <<>>
        ELSE /\ SetDispatcher(AdmitCall(s0, c, FALSE))
             /\ emitted' = <<>>
  /\ UNCHANGED <<tools, regCount, lastReg, maxConcurrentExecutions>>

\* executeTool(name, args) called by the application
ExecuteTool(name, args) ==
  /\ ExecuteToolStart(name, args)
  /\ inbound' = ToolCallReturns(inbound)
  /\ UNCHANGED invalidMessages

\* _executeToolInternal after `await this._validateToolArguments(...)`: either
\* INVALID_TOOL_ARGUMENTS is thrown, or tool.execute(args) invokes the callback.
ValidateAndInvoke(c) ==
  /\ op' = NoOp
  /\ settled' = {}
  /\ UNCHANGED <<sessionVars, delayVars>>
  /\ calls[c].state = "admitted"
  /\ IF ValidToolArguments(SchemaFor(calls[c].name), calls[c].args)
     THEN \* tool.execute(args): this.callCount++, then this.callback(args)
          /\ calls' = [calls EXCEPT ![c].state = "running", ![c].passed = calls[c].args]
          /\ tools' = [n \in Names |->
                         IF tools[n].def = calls[c].def
                         THEN [tools[n] EXCEPT !.callCount = @ + 1]
                         ELSE tools[n]]
          /\ emitted' = <<>>
          /\ UNCHANGED <<executionQueue, isProcessingQueue, currentExecutions,
                         immediates>>
     ELSE /\ SetDispatcher(FinishInternal(DispatcherState, c,
               ValidateToolArguments(SchemaFor(calls[c].name), calls[c].args)))
          /\ emitted' = IF calls[c].viaQueue THEN <<>> ELSE <<"tool-error">>
          /\ UNCHANGED tools
  /\ UNCHANGED <<regCount, lastReg, maxConcurrentExecutions>>
  /\ inbound' = ToolCallReturns(inbound)
  /\ UNCHANGED invalidMessages

\* the callback's result settles: it returned (ok) or threw / rejected
CallbackSettles(c, out) ==
  /\ op' = NoOp
  /\ settled' = {}
  /\ UNCHANGED <<sessionVars, delayVars>>
  /\ calls[c].state = "running"
  /\ SetDispatcher(FinishInternal(DispatcherState, c, out))
  /\ emitted' = IF out = "ok" THEN <<"tool-called">>
                ELSE IF calls[c].viaQueue THEN <<>> ELSE ToolErrorEvent(out)
  /\ UNCHANGED <<tools, regCount, lastReg, maxConcurrentExecutions>>
  /\ inbound' = ToolCallReturns(inbound)
  /\ UNCHANGED invalidMessages

\* _processQueue after `await this._executeToolInternal(...)`: resolve / reject
\* the queued promise, then the finally block
ProcessQueueResume(c) ==
  /\ op' = NoOp
  /\ settled' = {}
  /\ UNCHANGED <<sessionVars, delayVars>>
  /\ calls[c].state = "finishing"
  /\ SetDispatcher(ProcessQueueFinally(
       [DispatcherState EXCEPT !.calls[c].state = "done",
                               !.calls[c].result = ExecuteToolReturn(@)]))
  /\ emitted' = ToolErrorEvent(calls[c].result)
  /\ UNCHANGED <<tools, regCount, lastReg, maxConcurrentExecutions>>
  /\ inbound' = ToolCallReturns(inbound)
  /\ UNCHANGED invalidMessages

\* the setImmediate callback of _processQueue's finally block
ImmediateFires ==
  /\ op' = NoOp
  /\ settled' = {}
  /\ UNCHANGED <<sessionVars, delayVars>>
  /\ immediates > 0
  /\ SetDispatcher(ProcessQueue([DispatcherState EXCEPT !.imm = @ - 1]))
  /\ emitted' = <<>>
  /\ UNCHANGED <<tools, regCount, lastReg, maxConcurrentExecutions>>
  /\ inbound' = ToolCallReturns(inbound)
  /\ UNCHANGED invalidMessages

InitToolsWith(n, ceilings) ==
  /\ tools = [m \in Names |-> NoTool]
  /\ regCount = 0
  /\ lastReg = [m \in Names |-> NoReg]
  /\ calls = [c \in 1..n |-> FreeCall]
  /\ executionQueue = <<>>
  /\ isProcessingQueue = FALSE
  /\ maxConcurrentExecutions \in ceilings
  /\ currentExecutions = 0
  /\ immediates = 0
  /\ inbound = <<>>
  /\ invalidMessages = 0

InitTools == InitToolsWith(MaxCalls, 1..MaxCeiling)

\* the registry driven with every kind of parameter, while calls with valid
\* arguments run and return
NextRegistry ==
  \/ \E n \in NameArgs, d \in Descriptions, i \in SchemaArgs, cb \in Callbacks :
       RegisterToolWith(n, d, i, cb)
  \/ \E n \in NameArgs : UnregisterTool(n)
  \/ \E n \in Names : ExecuteTool(n, "withMsg")
  \/ \E c \in Calls : ValidateAndInvoke(c)
  \/ \E c \in Calls : CallbackSettles(c, "ok")
  \/ \E c \in Calls : ProcessQueueResume(c)
  \/ ImmediateFires

NextTools ==
  \/ \E n \in Names : RegisterTool(n)
  \/ \E n \in Names : UnregisterTool(n)
  \/ \E n \in Names, a \in ArgVals : ExecuteTool(n, a)
  \/ \E c \in Calls : ValidateAndInvoke(c)
  \/ \E c \in Calls, out \in CallbackOutcomes : CallbackSettles(c, out)
  \/ \E c \in Calls : ProcessQueueResume(c)
  \/ ImmediateFires

(***************************************************************************)
(* Session: MessageHandler, WebSocketMCP and ReconnectManager.  Handlers   *)
(* call one another, so each is an operator on the session state record    *)
(* and an action applies the handlers of one event in program order.       *)
(***************************************************************************)
\* config.requestTimeout, in ticks of the request clock
RequestTimeout == 1

Reqs == 1..MaxReqs
Socks == 1..MaxSock
\* identifiers a caller passes to sendRequest(method, params, id)
ExplicitIds == {100}
\* identifiers generateId() returns: random and time based, hence distinct from
\* every identifier still in use; slot r of the request table draws r
GenIds == Reqs
Ids == ExplicitIds \cup GenIds
\* close reasons a peer can send, the second being the marker of disconnect()
Reasons == {"peer", "Manual disconnect"}

\* a slot whose promise is settled ("idle") keeps only what a callback that
\* is still outstanding reads
FreeReq == [state |-> "idle", id |-> 0, kind |-> "user", timer |-> FALSE,
            sending |-> FALSE, age |-> 0, delay |-> 0]

Forget(rq) ==
  IF rq.state = "pending" THEN rq
  ELSE [rq EXCEPT !.kind = "user", !.age = 0, !.delay = 0,
                  !.id = IF rq.sending THEN @ ELSE 0]

SessionState ==
  [reqs |-> reqs, pend |-> pendingRequests,
   connected |-> connected, connecting |-> connecting, state |-> connectionState,
   ws |-> ws, sock |-> sock, waitOpen |-> waitOpen, hb |-> heartbeatInterval,
   pong |-> pong, dtimer |-> debounceTimer, micro |-> micro,
   isRec |-> isReconnecting, attempts |-> reconnectAttempts,
   rtimer |-> reconnectTimer, orphans |-> orphanTimers,
   afterDisconnect |-> afterDisconnect,
   manual |-> manual, owed |-> owed, cycleCalls |-> cycleCalls, cancelled |-> cancelled,
   reported |-> <<>>, everConnected |-> everConnected,
   settled |-> {}, ev |-> <<>>]

SetSession(s) ==
  /\ reqs' = [r \in Reqs |-> Forget(s.reqs[r])]
  /\ settled' = s.settled
  /\ pendingRequests' = s.pend
  /\ connected' = s.connected
  /\ connecting' = s.connecting
  /\ connectionState' = s.state
  /\ ws' = s.ws
  /\ sock' = s.sock
  /\ waitOpen' = s.waitOpen
  /\ heartbeatInterval' = s.hb
  /\ pong' = s.pong
  /\ debounceTimer' = s.dtimer
  /\ micro' = s.micro
  /\ isReconnecting' = s.isRec
  /\ reconnectAttempts' = s.attempts
  /\ reconnectTimer' = s.rtimer
  /\ orphanTimers' = s.orphans
  /\ manual' = s.manual
  /\ afterDisconnect' = s.afterDisconnect
  /\ owed' = s.owed
  /\ cycleCalls' = s.cycleCalls
  /\ cancelled' = s.cancelled
  /\ reported' = s.reported
  /\ everConnected' = s.everConnected
  /\ emitted' = s.ev
  /\ UNCHANGED <<autoReconnect, maxAttempts, configVars>>

\* the events the properties observe
Tracked == {"error", "reconnect-failed", "reconnect-give-up", "reconnected"}

\* this.mcpClient.emit(...)
Emit(s, e) == IF e \in Tracked THEN [s EXCEPT !.ev = Append(@, e)] ELSE s

\* isConnected(): this.connected && this.ws && this.ws.readyState === OPEN
\* the options a caller may give for heartbeatInterval and requestTimeout
HeartbeatOptions == {-1000, 0, 5000}
RequestTimeoutOptions == {5000}
DefaultHeartbeatInterval == 30000
DefaultRequestTimeout == 30000

\* new MCPConfig(options): options.x || default
OrDefault(option, default) == IF option = 0 THEN default ELSE option

IsConnected(s) == s.connected /\ s.ws # 0 /\ s.sock[s.ws] = "OPEN"

(***************************************************************************)
(* MessageHandler                                                          *)
(***************************************************************************)
\* A slot of the request table can hold a new promise once nothing refers to
\* the promise it held.
Reusable(s, r) ==
  /\ s.reqs[r].state # "pending"
  /\ ~s.reqs[r].timer
  /\ ~s.reqs[r].sending
  /\ \A i \in Ids : s.pend[i] # r

HasSlot(s) == \E r \in Reqs : Reusable(s, r)

NewSlot(s) == CHOOSE r \in Reqs : Reusable(s, r) /\ \A q \in Reqs : Reusable(s, q) => r <= q

IsInit(kind) == kind \in {"init-user", "init-reconnect"}

InitCaller(kind) == IF kind = "init-user" THEN "user" ELSE "reconnect"

\* resolve(...) / reject(...) of the promise of request r: a settled promise
\* ignores the call; settling the initialize request of a handshake schedules
\* the continuation of the connect() that awaits it.
Settle(s, r, outcome) ==
  IF s.reqs[r].state # "pending" THEN s
  ELSE LET s1 == [s EXCEPT !.reqs[r].state = "idle",
                           !.settled = @ \cup {<<r, outcome>>}]
       IN IF IsInit(s.reqs[r].kind)
          THEN [s1 EXCEPT !.micro = Append(@,
                  [ok |-> (outcome = "resolved"), caller |-> InitCaller(s.reqs[r].kind)])]
          ELSE s1

\* clearTimeout(request.timeout)
ClearTimer_Forgotten(rq, r) == rq

ClearTimer(rq, r) == [rq EXCEPT ![r].timer = FALSE]

\* this.pendingRequests.delete(requestId) in the timeout callback
TimeoutDelete_Forgotten(pend, id) == pend

TimeoutDelete(pend, id) == [pend EXCEPT ![id] = 0]

\* this.pendingRequests.get(id) in _handleResponse: the entry under the identifier
LookupPending_First(pend, id) ==
  IF \E i \in Ids : pend[i] # 0
  THEN pend[CHOOSE i \in Ids : pend[i] # 0 /\ \A j \in Ids : pend[j] # 0 => i <= j]
  ELSE 0

LookupPending(pend, id) == pend[id]

\* the promise executor of sendRequest, for an identifier and a method
RegisterRequest(s, id, kind) ==
  LET r == NewSlot(s)
  IN [s EXCEPT !.reqs[r] = [state |-> "pending", id |-> id, kind |-> kind,
                            timer |-> TRUE, sending |-> TRUE, age |-> 0,
                            delay |-> handlerRequestTimeout],
               !.pend[id] = r]

\* sendRequest with a generated identifier: generateId()
SendGenerated(s, kind) == RegisterRequest(s, NewSlot(s), kind)

RECURSIVE CancelFrom(_, _)
CancelFrom(s, ids) ==
  IF ids = {} THEN s
  ELSE LET i == CHOOSE x \in ids : \A y \in ids : x <= y
           r == s.pend[i]
       IN CancelFrom(Settle([s EXCEPT !.reqs = ClearTimer(@, r)], r, "CONNECTION_CLOSED"),
                     ids \ {i})

\* cancelAllRequests()
CancelAllRequests(s) ==
  [CancelFrom(s, {i \in Ids : s.pend[i] # 0}) EXCEPT !.pend = [i \in Ids |-> 0]]

RECURSIVE CleanupFrom(_, _)
CleanupFrom(s, ids) ==
  IF ids = {} THEN s
  ELSE LET i == CHOOSE x \in ids : \A y \in ids : x <= y
           r == s.pend[i]
           s1 == Settle([s EXCEPT !.reqs = ClearTimer(@, r)], r, "CLEANUP_TIMEOUT")
       IN CleanupFrom([s1 EXCEPT !.pend[i] = 0], ids \ {i})

\* cleanup(): the entries older than the request timeout
CleanupRequests(s) ==
  CleanupFrom(s, {i \in Ids : s.pend[i] # 0 /\ s.reqs[s.pend[i]].age > RequestTimeout})

\* _handleResponse({id, result | error})
HandleResponseMsg(s, id, isError) ==
  IF s.pend[id] = 0 THEN s
  ELSE LET r == LookupPending(s.pend, id)
           s1 == [s EXCEPT !.pend[id] = 0, !.reqs = ClearTimer(@, r)]
       IN Settle(s1, r, IF isError THEN "RPC_ERROR" ELSE "resolved")

(***************************************************************************)
(* ReconnectManager                                                        *)
(***************************************************************************)
\* reset()
ResetReconnect(s) ==
  [s EXCEPT !.isRec = FALSE, !.attempts = 0, !.rtimer = FALSE, !.cycleCalls = 0]

\* cancel()
CancelReconnect(s) == IF s.isRec THEN ResetReconnect(s) ELSE s

\* _giveUp()
GiveUp(s) == ResetReconnect(Emit(s, "reconnect-give-up"))

\* this.reconnectAttempts >= this.maxAttempts
AttemptsExhausted(n) == n >= maxAttempts

\* scheduleReconnect(): a timer still armed when this.reconnectTimer is
\* assigned stays armed, and no handle refers to it any more
ScheduleReconnect(s) ==
  IF ~managerAutoReconnect THEN s
  ELSE IF s.isRec THEN s
  ELSE IF AttemptsExhausted(s.attempts) THEN GiveUp(s)
  ELSE [s EXCEPT !.isRec = TRUE, !.attempts = @ + 1, !.rtimer = TRUE,
                 !.orphans = IF s.rtimer THEN @ + 1 ELSE @]

\* the catch block of _attemptReconnect
AttemptFailed(s) ==
  ScheduleReconnect([Emit(s, "reconnect-failed") EXCEPT !.isRec = FALSE])

\* forceReconnect() of the controller; `immediate` only shortens the delay
ForceReconnect(s) == ScheduleReconnect([CancelReconnect(s) EXCEPT !.cancelled = FALSE])

\* _onReconnectSuccess()
OnReconnectSuccess(s) ==
  ResetReconnect([Emit(s, "reconnected") EXCEPT !.reported = Append(@, s.attempts)])

(***************************************************************************)
(* WebSocketMCP                                                            *)
(***************************************************************************)
\* _stopHeartbeat()
StopHeartbeat(s) == [s EXCEPT !.hb = FALSE]

\* _startHeartbeat(): no timer when config.heartbeatInterval <= 0
StartHeartbeat(s) ==
  IF configHeartbeatInterval <= 0 THEN StopHeartbeat(s)
  ELSE [StopHeartbeat(s) EXCEPT !.hb = TRUE]

\* the catch block of connect(), then the caller's continuation
\* the guard of connect(): if (this.connecting || this.connected) throw
AlreadyConnecting_ConnectedOnly(s) == s.connected

AlreadyConnecting(s) == s.connecting \/ s.connected

ConnectCatch(s, caller) ==
  LET s1 == Emit(Emit([s EXCEPT !.connecting = FALSE, !.state = "error"],
                      "error"), "status-change")
  IN IF caller = "reconnect" THEN AttemptFailed(s1) ELSE s1

\* one continuation of a connect(): the handshake succeeded or connect() failed
RunContinuation(s, m) ==
  IF m.ok
  THEN IF m.caller = "reconnect" THEN OnReconnectSuccess(s) ELSE s
  ELSE ConnectCatch(s, m.caller)

RECURSIVE DrainMicro(_)
DrainMicro(s) ==
  IF s.micro = <<>> THEN s
  ELSE DrainMicro(RunContinuation([s EXCEPT !.micro = Tail(@)], Head(s.micro)))

\* this._debouncedReconnect(): debounce(fn, 1000) restarts its timer
ArmDebounce(s) == [s EXCEPT !.dtimer = TRUE]

\* _handleDisconnection(reason)
HandleDisconnection(s, reason) ==
  LET wasConnected == s.connected
      s1 == [s EXCEPT !.connected = FALSE, !.connecting = FALSE,
                      !.state = "disconnected"]
      s2 == CancelAllRequests(StopHeartbeat(s1))
      s3 == Emit(Emit(s2, "disconnected"), "status-change")
      unexpected == wasConnected /\ reason # "Manual disconnect"
  IN IF unexpected /\ autoReconnect
     THEN [ArmDebounce(s3) EXCEPT !.owed = "yes",
                     !.manual = IF @ = "userconn" THEN "no" ELSE @]
     ELSE IF unexpected
     THEN [s3 EXCEPT !.manual = IF @ = "userconn" THEN "no" ELSE @]
     ELSE s3

\* this.ws.close(1000, 'Normal closure'): a socket still connecting is aborted
\* and emits error and close on the next tick
CloseSocket(st) ==
  CASE st = "OPEN" -> "CLOSING"
    [] st = "CONNECTING" -> "ABORTED"
    [] OTHER -> st

\* disconnect()
Disconnect(s) ==
  LET s1 == StopHeartbeat(CancelReconnect(s))
      s2 == IF s1.ws # 0
            THEN [s1 EXCEPT !.sock[s1.ws] = CloseSocket(@), !.ws = 0]
            ELSE s1
  IN HandleDisconnection([s2 EXCEPT !.manual = "disconnected", !.afterDisconnect = TRUE,
                                    !.owed = IF @ = "yes" THEN "cancelled" ELSE @],
                         "Manual disconnect")

HasFreeSock(s) == \E k \in DOMAIN s.sock : s.sock[k] = "FREE" /\ s.waitOpen[k] = "none"

NewSock(s) ==
  CHOOSE k \in DOMAIN s.sock :
    /\ s.sock[k] = "FREE" /\ s.waitOpen[k] = "none"
    /\ \A j \in DOMAIN s.sock : (s.sock[j] = "FREE" /\ s.waitOpen[j] = "none") => k <= j

\* connect() up to `await this._waitForConnection()`
ConnectStart(s, caller) ==
  LET k == NewSock(s)
      s1 == Emit([s EXCEPT !.connecting = TRUE, !.state = "connecting",
                           !.afterDisconnect = FALSE], "status-change")
  IN [s1 EXCEPT !.ws = k, !.sock[k] = "CONNECTING", !.waitOpen[k] = caller]

\* connect() after _waitForConnection resolved: connected, heartbeat, and
\* _performHandshake up to the await of the initialize request
ConnectOpened(s, caller) ==
  LET s1 == [s EXCEPT !.connected = TRUE, !.connecting = FALSE, !.state = "connected",
                      !.everConnected = TRUE,
                      !.pong = IF @ = "never-late" THEN "never" ELSE @,
                      !.manual = IF caller = "user" /\ @ = "disconnected"
                                 THEN "userconn" ELSE @]
      s2 == StartHeartbeat(Emit(Emit(s1, "connected"), "status-change"))
  IN IF IsConnected(s2)
     THEN SendGenerated(s2, IF caller = "user" THEN "init-user" ELSE "init-reconnect")
     ELSE ConnectCatch(s2, caller)

\* _attemptReconnect()
AttemptReconnect(s) ==
  IF ~s.isRec THEN s
  ELSE LET s1 == [Emit(s, "status-change") EXCEPT !.owed = "no", !.cycleCalls = @ + 1,
                                                  !.afterDisconnect = FALSE]
       IN IF AlreadyConnecting(s1)
          THEN AttemptFailed(s1)
          ELSE ConnectStart(s1, "reconnect")

\* sockets aborted by close() emit on the next tick, before any timer or I/O
NoTickPending == \A k \in DOMAIN sock : sock[k] # "ABORTED"

\* timers and I/O events run only once the microtask queue is empty
EventLoopIdle == micro = <<>> /\ NoTickPending

\* the error and close events of a socket whose handshake failed or was aborted
ErrorAndClose(s, k) ==
  LET s1 == Emit(s, "error")
      s2 == IF s1.waitOpen[k] # "none"
            THEN [s1 EXCEPT !.waitOpen[k] = "none",
                            !.micro = Append(@, [ok |-> FALSE, caller |-> s1.waitOpen[k]])]
            ELSE s1
  IN DrainMicro(HandleDisconnection([s2 EXCEPT !.sock[k] = "FREE"], "peer"))

\* one step of the session: the handlers of one event have run
StepSession(name, arg, s) ==
  /\ s.orphans <= MaxOrphans
  /\ op' = IF name \in {"response", "timeout", "attempt", "connect", "heartbeat", "cancel"} THEN [name |-> name, arg |-> arg] ELSE NoOp
  /\ SetSession(s)
  /\ UNCHANGED <<toolVars, delayVars>>

\* history: conn is the socket a tools/call request arrived on, as long as its
\* handler awaits the tool and that connection is open (0 otherwise)
ArrivalClosed(inb, s) ==
  [i \in 1..Len(inb) |->
     IF inb[i].state = "awaiting" /\ inb[i].conn # 0 /\ s.sock[inb[i].conn] # "OPEN"
     THEN [inb[i] EXCEPT !.conn = 0] ELSE inb[i]]

Step(name, arg, s) ==
  /\ StepSession(name, arg, s)
  /\ inbound' = ArrivalClosed(inbound, s)
  /\ UNCHANGED invalidMessages

\* connect() called by the user
\* connect() by the application; arg 1: rejected with ALREADY_CONNECTING
UserConnect ==
  IF AlreadyConnecting(SessionState)
  THEN Step("connect", 1, [SessionState EXCEPT !.afterDisconnect = FALSE])
  ELSE /\ HasFreeSock(SessionState)
       /\ Step("connect", 0, ConnectStart(SessionState, "user"))

\* updateConfig(newConfig) called by the user; a property the caller leaves out
\* is the property of the present configuration, which MCPConfig converts again
UpdateConfig(a, h, t) ==
  LET newInterval == OrDefault(h, DefaultHeartbeatInterval)
  IN /\ autoReconnect' = a
     /\ heartbeatOption' = h
     /\ configHeartbeatInterval' = newInterval
     /\ configRequestTimeout' = OrDefault(t, DefaultRequestTimeout)
     /\ heartbeatInterval' = IF configHeartbeatInterval # newInterval /\ connected
                              THEN newInterval > 0
                              ELSE heartbeatInterval
     /\ op' = [name |-> "updateConfig", arg |-> 0]
     /\ settled' = {}
     /\ emitted' = <<>>
     /\ reported' = <<>>
     /\ UNCHANGED <<managerAutoReconnect, handlerRequestTimeout, maxAttempts,
                    isReconnecting, reconnectAttempts, reconnectTimer, orphanTimers>>
     /\ UNCHANGED <<routerVars, connected, connecting, connectionState, ws, sock,
                    waitOpen, pong, debounceTimer, micro>>
     /\ UNCHANGED <<manual, owed, cycleCalls, cancelled, everConnected, afterDisconnect>>
     /\ UNCHANGED <<toolVars, inboundVars, delayVars>>

\* disconnect() called by the user
UserDisconnect == Step("disconnect", 0, Disconnect(SessionState))

\* the promise continuations left by a call of the user run when it returns
RunMicrotasks ==
  /\ micro # <<>>
  /\ NoTickPending
  /\ Step("microtasks", 0, DrainMicro(SessionState))

\* next tick after close() on a connecting socket: ws emits error, then close
AbortedSocketEvents(k) ==
  /\ sock[k] = "ABORTED"
  /\ Step("aborted", k, ErrorAndClose(SessionState, k))

\* the 'open' event of socket k, and the connect() it resumes
SocketOpen(k) ==
  /\ EventLoopIdle
  /\ sock[k] = "CONNECTING"
  /\ LET s1 == [SessionState EXCEPT !.sock[k] = "OPEN"]
     IN IF waitOpen[k] = "none"
        THEN Step("open", k, s1)
        ELSE /\ HasSlot(s1)
             /\ Step("open", k, ConnectOpened([s1 EXCEPT !.waitOpen[k] = "none"], waitOpen[k]))

\* the opening handshake of socket k fails: ws emits error, then close
SocketError(k) ==
  /\ EventLoopIdle
  /\ sock[k] = "CONNECTING"
  /\ Step("socketError", k, ErrorAndClose(SessionState, k))

\* the timer of _waitForConnection fires
ConnectTimeout(k) ==
  /\ EventLoopIdle
  /\ sock[k] = "CONNECTING"
  /\ waitOpen[k] # "none"
  /\ Step("connectTimeout", k,
          ConnectCatch([SessionState EXCEPT !.waitOpen[k] = "none"], waitOpen[k]))

\* the 'close' event of an open or closing socket
SocketClose(k, reason) ==
  /\ EventLoopIdle
  /\ sock[k] \in {"OPEN", "CLOSING"}
  /\ Step("close", k,
          DrainMicro(HandleDisconnection([SessionState EXCEPT !.sock[k] = "FREE"], reason)))

\* a response frame arrives on socket k: handleMessage -> _handleResponse
HandleResponse(k, id, isError) ==
  /\ EventLoopIdle
  /\ sock[k] = "OPEN"
  /\ Step("response", id, DrainMicro(HandleResponseMsg(SessionState, id, isError)))

\* the timeout callback of sendRequest
RequestTimerFires(r) ==
  /\ EventLoopIdle
  /\ reqs[r].timer
  /\ reqs[r].age >= RequestTimeout
  /\ LET s1 == [SessionState EXCEPT !.reqs[r].timer = FALSE,
                                    !.pend = TimeoutDelete(@, reqs[r].id)]
     IN Step("timeout", r, DrainMicro(Settle(s1, r, "REQUEST_TIMEOUT")))

\* the send callback reports an error: the catch handler of sendRequest
SendFails(r) ==
  /\ EventLoopIdle
  /\ reqs[r].sending
  /\ LET s1 == [SessionState EXCEPT !.reqs[r].sending = FALSE,
                                    !.reqs = ClearTimer(@, r),
                                    !.pend[reqs[r].id] = 0]
     IN Step("sendFailed", r, DrainMicro(Settle(s1, r, "SEND_FAILED")))

\* the send callback reports success
SendSucceeds(r) ==
  /\ EventLoopIdle
  /\ reqs[r].sending
  /\ Step("sent", r, [SessionState EXCEPT !.reqs[r].sending = FALSE])

Live(r) == reqs[r].timer \/ \E i \in Ids : pendingRequests[i] = r

\* time passes: every request that is still tracked grows older
Tick ==
  /\ EventLoopIdle
  /\ \E r \in Reqs : Live(r) /\ reqs[r].age <= RequestTimeout
  /\ Step("tick", 0,
          [SessionState EXCEPT !.reqs = [r \in Reqs |->
             IF Live(r) /\ reqs[r].age <= RequestTimeout
             THEN [reqs[r] EXCEPT !.age = @ + 1] ELSE reqs[r]]])

\* sendRequest(method, params, id) called by the user; id 0: no identifier given
UserSendRequest(xid) ==
  IF ~IsConnected(SessionState)
  THEN Step("sendRejected", xid, SessionState)
  ELSE /\ HasSlot(SessionState)
       /\ Step("sendRequest", NewSlot(SessionState),
               IF xid = 0 THEN SendGenerated(SessionState, "user")
               ELSE RegisterRequest(SessionState, xid, "user"))

\* cleanup() called by the user
UserCleanup ==
  /\ \E i \in Ids : pendingRequests[i] # 0
  /\ Step("cleanup", 0, DrainMicro(CleanupRequests(SessionState)))

\* the interval callback of _startHeartbeat
HeartbeatTick ==
  /\ EventLoopIdle
  /\ heartbeatInterval
  /\ IF IsConnected(SessionState)
     THEN /\ HasSlot(SessionState)
          /\ LET s1 == SendGenerated(SessionState, "user")
             IN IF pong = "stale"
                THEN Step("heartbeat", 1, DrainMicro(Disconnect(s1)))
                ELSE Step("heartbeat", 0, s1)
     ELSE Step("heartbeat", 0, SessionState)

\* the 'pong' event of socket k
PongReceived(k) ==
  /\ EventLoopIdle
  /\ sock[k] = "OPEN"
  /\ pong # "fresh"
  /\ Step("pong", k, [SessionState EXCEPT !.pong = "fresh"])

\* more than pingTimeout passes without a pong
PongAges ==
  /\ EventLoopIdle
  /\ \/ pong = "fresh"
     \/ pong = "never" /\ connected
  /\ Step("pongAges", 0,
          [SessionState EXCEPT !.pong = IF @ = "fresh" THEN "stale" ELSE "never-late"])

\* the timer of the debounced scheduleReconnect fires
DebounceFires ==
  /\ EventLoopIdle
  /\ debounceTimer
  /\ Step("debounce", 0, ScheduleReconnect([SessionState EXCEPT !.dtimer = FALSE, !.cancelled = FALSE]))

\* a connect() of _attemptReconnect needs a socket unless it is rejected at once
CanAttempt == ~isReconnecting \/ AlreadyConnecting(SessionState) \/ HasFreeSock(SessionState)

\* the timer this.reconnectTimer refers to fires: _attemptReconnect
ReconnectTimerFires ==
  /\ EventLoopIdle
  /\ reconnectTimer
  /\ CanAttempt
  /\ Step(IF isReconnecting THEN "attempt" ELSE "timerIgnored", 0,
          AttemptReconnect([SessionState EXCEPT !.rtimer = FALSE]))

\* a reconnect timer that was never cleared fires: _attemptReconnect
OrphanTimerFires ==
  /\ EventLoopIdle
  /\ orphanTimers > 0
  /\ CanAttempt
  /\ Step(IF isReconnecting THEN "attempt" ELSE "timerIgnored", 1,
          AttemptReconnect([SessionState EXCEPT !.orphans = @ - 1]))

\* reconnectManager.forceReconnect() called by the user
UserForceReconnect == Step("forceReconnect", 0, ForceReconnect(SessionState))

\* reconnectManager.cancel() called by the user
UserCancel == Step("cancel", 0, [CancelReconnect(SessionState) EXCEPT !.cancelled = TRUE])

\* the constructors of WebSocketMCP, ReconnectManager and MessageHandler
InitSessionWith(heartbeatOptions) ==
  /\ autoReconnect \in BOOLEAN
  /\ managerAutoReconnect = autoReconnect
  /\ heartbeatOption \in heartbeatOptions
  /\ configHeartbeatInterval = OrDefault(heartbeatOption, DefaultHeartbeatInterval)
  /\ configRequestTimeout = DefaultRequestTimeout
  /\ handlerRequestTimeout = configRequestTimeout
  /\ reqs = [r \in Reqs |-> FreeReq]
  /\ pendingRequests = [i \in Ids |-> 0]
  /\ connected = FALSE
  /\ connecting = FALSE
  /\ connectionState = "disconnected"
  /\ ws = 0
  /\ \E n \in Socks : /\ sock = [k \in 1..n |-> "FREE"]
                       /\ waitOpen = [k \in 1..n |-> "none"]
  /\ heartbeatInterval = FALSE
  /\ pong = "never"
  /\ debounceTimer = FALSE
  /\ micro = <<>>
  /\ maxAttempts \in 1..MaxAttemptsCfg
  /\ isReconnecting = FALSE
  /\ reconnectAttempts = 0
  /\ reconnectTimer = FALSE
  /\ orphanTimers = 0
  /\ manual = "no"
  /\ owed = "no"
  /\ cycleCalls = 0
  /\ cancelled = FALSE
  /\ reported = <<>>
  /\ everConnected = FALSE
  /\ afterDisconnect = FALSE
  /\ op = NoOp
  /\ settled = {}
  /\ emitted = <<>>

InitSession == InitSessionWith({DefaultHeartbeatInterval})

\* the connection events shared by the router and the connection specifications
NextLink ==
  \/ UserConnect
  \/ UserDisconnect
  \/ RunMicrotasks
  \/ \E k \in DOMAIN sock : AbortedSocketEvents(k)
  \/ \E k \in DOMAIN sock : SocketOpen(k)
  \/ \E k \in DOMAIN sock : SocketError(k)
  \/ \E k \in DOMAIN sock : ConnectTimeout(k)
  \/ \E k \in DOMAIN sock, reason \in Reasons : SocketClose(k, reason)
  \/ \E r \in Reqs : SendFails(r)
  \/ \E r \in Reqs : SendSucceeds(r)

\* the router under every frame, request timeouts and the calls of the user
NextRouter ==
  \/ NextLink
  \/ \E k \in DOMAIN sock, i \in Ids, e \in BOOLEAN : HandleResponse(k, i, e)
  \/ \E r \in Reqs : RequestTimerFires(r)
  \/ Tick
  \/ \E x \in ExplicitIds \cup {0} : UserSendRequest(x)
  \/ UserCleanup
  \/ HeartbeatTick

\* the reconnection controller; the handshake of a connection ends with the
\* response to its initialize request or with a failure to send it
NextConn ==
  \/ NextLink
  \/ \E k \in DOMAIN sock, i \in Ids, e \in BOOLEAN :
       pendingRequests[i] # 0 /\ HandleResponse(k, i, e)
  \/ DebounceFires
  \/ ReconnectTimerFires
  \/ OrphanTimerFires

(***************************************************************************)
(* Specifications                                                          *)
(***************************************************************************)
\* config.reconnectDelay and config.maxBackoff as configured by default, no
\* delay computed yet
NoBackoff == [base |-> 1000, max |-> 30000, attempts |-> 0, arg |-> 0, delay |-> 0]

InitAny ==
  /\ InitTools
  /\ InitSession
  /\ autoReconnect \in BOOLEAN

Init == InitAny /\ backoff = NoBackoff

\* the tool registry and dispatcher, driven through registerTool,
\* unregisterTool and executeTool
InitQuiet == Init /\ ~autoReconnect /\ maxAttempts = 1 /\ DOMAIN sock = 1..FewSocks

SpecTools == InitQuiet /\ [][NextTools]_vars

SpecRegistry == InitQuiet /\ [][NextRegistry]_vars

\* the dispatcher with a ceiling above one: calls with valid arguments whose
\* callbacks return
InitQueue ==
  /\ InitToolsWith(QueueCalls, {QueueCeiling})
  /\ InitSession
  /\ autoReconnect = FALSE
  /\ maxAttempts = 1 /\ DOMAIN sock = 1..FewSocks
  /\ backoff = NoBackoff

NextQueue ==
  \/ \E n \in Names : RegisterTool(n)
  \/ \E n \in Names : UnregisterTool(n)
  \/ \E n \in Names : ExecuteTool(n, "withMsg")
  \/ \E c \in Calls : ValidateAndInvoke(c)
  \/ \E c \in Calls : CallbackSettles(c, "ok")
  \/ \E c \in Calls : ProcessQueueResume(c)
  \/ ImmediateFires

SpecQueue == InitQueue /\ [][NextQueue]_vars

\* the dispatcher with callbacks that return, throw or reject, under the
\* scheduling of the event loop: continuations and setImmediate callbacks
\* run, and every callback that was invoked settles
NextDrain ==
  \/ \E n \in Names : RegisterTool(n)
  \/ \E n \in Names : UnregisterTool(n)
  \/ \E n \in Names : ExecuteTool(n, "withMsg")
  \/ \E c \in Calls : ValidateAndInvoke(c)
  \/ \E c \in Calls, out \in CallbackOutcomes : CallbackSettles(c, out)
  \/ \E c \in Calls : ProcessQueueResume(c)
  \/ ImmediateFires

FairDrain ==
  /\ \A c \in 1..MaxCalls : WF_vars(c \in Calls /\ ValidateAndInvoke(c))
  /\ \A c \in 1..MaxCalls :
       WF_vars(c \in Calls /\ \E out \in CallbackOutcomes : CallbackSettles(c, out))
  /\ \A c \in 1..MaxCalls : WF_vars(c \in Calls /\ ProcessQueueResume(c))
  /\ WF_vars(ImmediateFires)

LiveDrain == InitQuiet /\ [][NextDrain]_vars /\ FairDrain

\* the message router on a session without automatic reconnection
SpecRouter == InitQuiet /\ [][NextRouter]_vars

\* the connection state machine with automatic reconnection
InitConn == Init /\ autoReconnect /\ DOMAIN sock = Socks

SpecConn == InitConn /\ [][NextConn]_vars

\* what the event loop and the network guarantee: a timer that is due fires
\* (strongly: other events may run first, but not forever), queued continuations and next-tick events run, a socket that is connecting
\* opens or fails, a socket that is closing or that the session has abandoned
\* is closed by the peer and a send callback is called; the calls of the user
\* are under no obligation
Resolve(k) == SocketOpen(k) \/ SocketError(k) \/ ConnectTimeout(k)

\* a socket that is closing, or open with no session connected over it
Abandoned(k) ==
  \/ sock[k] = "CLOSING"
  \/ sock[k] = "OPEN" /\ ~connected /\ ~connecting

Closes(k) == Abandoned(k) /\ SocketClose(k, "peer")

SendReturns(r) == SendSucceeds(r) \/ SendFails(r)

FairConn ==
  /\ WF_vars(RunMicrotasks)
  /\ SF_vars(DebounceFires)
  /\ SF_vars(ReconnectTimerFires)
  /\ SF_vars(OrphanTimerFires)
  /\ \A k \in Socks : WF_vars(k \in DOMAIN sock /\ AbortedSocketEvents(k))
  /\ \A k \in Socks : WF_vars(k \in DOMAIN sock /\ Resolve(k))
  /\ \A k \in Socks : WF_vars(k \in DOMAIN sock /\ Closes(k))
  /\ \A r \in Reqs : WF_vars(SendReturns(r))

InitLive == Init /\ autoReconnect /\ DOMAIN sock = 1..FewSocks

LiveConn == InitLive /\ [][NextConn]_vars /\ FairConn

\* the reconnection controller driven through its own interface as well
NextController ==
  \/ NextConn
  \/ UserForceReconnect
  \/ UserCancel

SpecController == InitLive /\ [][NextController]_vars

(***************************************************************************)
(* Properties of the tool dispatcher (checked under SpecTools)             *)
(***************************************************************************)
InFlight == {c \in Calls : calls[c].state \in {"admitted", "running"}}

Started(c) == calls[c].state \in {"admitted", "running", "finishing", "done"}

\* C5: the number of tool executions in flight, which currentExecutions
\* counts, is never negative and never above the configured ceiling.
C5_CeilingRespected ==
  /\ currentExecutions = Cardinality(InFlight)
  /\ currentExecutions >= 0
  /\ currentExecutions <= maxConcurrentExecutions

\* the ceiling is reached, a call waits in the queue and an execution has finished
C5_Witness ==
  /\ currentExecutions = maxConcurrentExecutions
  /\ executionQueue # <<>>
  /\ \E c \in Calls : calls[c].state = "done" /\ calls[c].result = "ok"

\* C6: queued calls are started and completed in the order they were
\* enqueued (calls are numbered in the order they were made): a queued call
\* is started only after the result of every call queued before it has
\* been delivered.
C6_QueuedFifo ==
  \A a, b \in Calls :
    (a < b /\ calls[a].viaQueue /\ calls[b].viaQueue /\ Started(b))
      => calls[a].state = "done"

\* two queued calls have both run their callback and delivered their result
C6_Witness ==
  \E a, b \in Calls :
    /\ a < b
    /\ calls[a].viaQueue /\ calls[b].viaQueue
    /\ calls[a].state = "done" /\ calls[a].result \in {"ok", "TOOL_ERROR"}
    /\ calls[b].state = "done" /\ calls[b].result \in {"ok", "TOOL_ERROR"}

\* C7: registerTool under an existing name raises no error and replaces the
\* definition, and the definition a call is admitted with, whose callback
\* it invokes, is the one of the latest registerTool of its name at that
\* moment: a call made after a re-registration never runs a replaced one.
C7_NewCallbackInvoked ==
  [][/\ \A n \in Names :
          lastReg'[n] # lastReg[n] => tools'[n].def = lastReg'[n].def
     /\ \A c \in Calls :
          (calls[c].state # "admitted" /\ calls'[c].state = "admitted")
            => (calls'[c].def = lastReg[calls'[c].name].def /\ calls'[c].def # 0)]_vars

\* a call runs the callback of a definition that replaced an earlier one
C7_Witness ==
  \E c \in Calls :
    /\ calls[c].state = "running"
    /\ lastReg[calls[c].name].over
    /\ calls[c].def = lastReg[calls[c].name].def

(***************************************************************************)
(* Properties of the message router (checked under SpecRouter)             *)
(***************************************************************************)
Outstanding == {r \in Reqs : reqs[r].state = "pending"}

Outcomes == {"resolved", "RPC_ERROR", "REQUEST_TIMEOUT", "SEND_FAILED",
             "CONNECTION_CLOSED", "CLEANUP_TIMEOUT"}

\* C1: a response frame carrying identifier X completes only the pending
\* request registered under X, whose identifier is X, and leaves every other
\* request and entry as it was; with no entry under X the frame is dropped
\* and no request changes (each stays pending with its timer armed).
C1_ResponseMatchesId ==
  [][op'.name = "response" =>
       LET X == op'.arg
           r == pendingRequests[X]
       IN /\ \A p \in settled' :
               /\ p[1] = r
               /\ reqs[r].id = X
               /\ reqs[r].state = "pending"
               /\ p[2] \in {"resolved", "RPC_ERROR"}
          /\ \A q \in Reqs \ {r} : reqs'[q] = reqs[q]
          /\ \A i \in Ids \ {X} : pendingRequests'[i] = pendingRequests[i]
          /\ r = 0 => /\ settled' = {}
                      /\ reqs' = reqs
                      /\ pendingRequests' = pendingRequests]_vars

\* a response has completed one request while another one stays pending
\* with its timer armed
C1_Witness ==
  /\ op.name = "response"
  /\ \E p \in settled : p[2] = "resolved"
  /\ \E q \in Reqs : reqs[q].state = "pending" /\ reqs[q].timer /\ reqs[q].id # op.arg

\* C2: when the request timer of a request fires (not before the configured
\* timeout) the request is rejected with RequestTimeout and no entry refers
\* to it or stays under its identifier; a response whose identifier has no
\* entry completes nothing, changes no request and emits no error.
C2_TimeoutRejects ==
  [][/\ op'.name = "timeout" =>
          LET r == op'.arg
          IN /\ reqs[r].age >= RequestTimeout
             /\ <<r, "REQUEST_TIMEOUT">> \in settled'
             /\ reqs'[r].state = "idle" /\ ~reqs'[r].timer
             /\ pendingRequests'[reqs[r].id] = 0
             /\ \A i \in Ids : pendingRequests'[i] # r
     /\ (op'.name = "response" /\ pendingRequests[op'.arg] = 0) =>
          /\ settled' = {}
          /\ reqs' = reqs
          /\ \A n \in 1..Len(emitted') : emitted'[n] # "error"]_vars

\* the timer of a request has fired and rejected it with RequestTimeout
C2_Witness ==
  /\ op.name = "timeout"
  /\ <<op.arg, "REQUEST_TIMEOUT">> \in settled
  /\ \A i \in Ids : pendingRequests[i] # op.arg

\* C3: every outstanding request has its own entry, registered under its
\* identifier: no entry is overwritten or removed on behalf of another request.
C3_OwnEntry ==
  \A r \in Outstanding : pendingRequests[reqs[r].id] = r

\* C4: a request is completed at most once, with one outcome, and only while
\* it is pending; at its completion no entry refers to it any more, and a
\* completed request has neither an armed timer nor an entry, so that no
\* later event completes it again.
C4_CompletedOnce ==
  /\ [](\A r \in Reqs \ Outstanding :
          ~reqs[r].timer /\ \A i \in Ids : pendingRequests[i] # r)
  /\ [][\A p \in settled' :
          /\ p[2] \in Outcomes
          /\ reqs[p[1]].state = "pending"
          /\ reqs'[p[1]].state = "idle"
          /\ \A q \in settled' : q[1] = p[1] => q = p
          /\ \A i \in Ids : pendingRequests'[i] # p[1]]_vars

\* connection teardown has completed a request whose send callback is still
\* outstanding
C4_Witness ==
  \E p \in settled :
    /\ p[2] = "CONNECTION_CLOSED"
    /\ reqs[p[1]].sending
    /\ reqs[p[1]].state = "idle"

(***************************************************************************)
(* Properties of the connection state machine (SpecConn and LiveConn)      *)
(***************************************************************************)
GiveUps(ev) == Cardinality({n \in 1..Len(ev) : ev[n] = "reconnect-give-up"})

Failed(ev) == \E n \in 1..Len(ev) : ev[n] = "reconnect-failed"

Failures(ev) == Cardinality({n \in 1..Len(ev) : ev[n] = "reconnect-failed"})

FirstFailed(ev) ==
  CHOOSE n \in 1..Len(ev) :
    ev[n] = "reconnect-failed" /\ \A m \in 1..(n - 1) : ev[m] # "reconnect-failed"

\* C8: from a call of disconnect() until a connection established by an
\* explicit connect() closes unexpectedly, no reconnect timer is armed and
\* the reconnection controller does not call connect().
C8_NoReconnectAfterDisconnect ==
  manual # "no" =>
    /\ ~reconnectTimer
    /\ orphanTimers = 0
    /\ op.name # "attempt"

\* a reconnection is on its way: a timer that leads to _attemptReconnect is
\* armed, or an attempt is in progress whose failure schedules the next one
AttemptToCome ==
  \/ debounceTimer
  \/ reconnectTimer
  \/ orphanTimers > 0
  \/ isReconnecting
  \/ micro # <<>>
  \/ \E k \in DOMAIN sock : waitOpen[k] = "reconnect"
  \/ \E r \in Reqs : reqs[r].state = "pending" /\ reqs[r].kind = "init-reconnect"

\* C9: an unexpected closure of a connected session with autoReconnect
\* schedules a reconnection, and a reconnect attempt follows: from the
\* closure until the controller calls connect() a reconnection is on its
\* way.  The obligation is counted as met as well once disconnect() is
\* called or the session is connected again, so that a violation is a
\* session left disconnected with no attempt to come.
C9_CloseLeadsToAttempt ==
  (owed = "yes" /\ ~connected) => AttemptToCome

\* C10: the attempt counter and the number of connect() calls of one
\* reconnection cycle never exceed maxAttempts, and the scheduleReconnect
\* that follows the failure of attempt number maxAttempts emits the give-up
\* event at once and exactly once, arms no timer and resets the counter to
\* zero (the state a step ends in is that of its last scheduleReconnect, so
\* timer and counter are read after a step with a single failure).
C10_AttemptCeiling ==
  /\ [](reconnectAttempts <= maxAttempts /\ cycleCalls <= maxAttempts)
  /\ [][(reconnectAttempts = maxAttempts /\ Failed(emitted')) =>
          LET n == FirstFailed(emitted')
          IN /\ n < Len(emitted')
             /\ emitted'[n + 1] = "reconnect-give-up"
             /\ Failures(emitted') = 1 =>
                  /\ GiveUps(emitted') = 1
                  /\ reconnectAttempts' = 0
                  /\ ~reconnectTimer']_vars

(***************************************************************************)
(* Properties of the session state (checked under SpecRouter and SpecConn) *)
(***************************************************************************)
HandshakeOutstanding ==
  \E r \in Reqs : reqs[r].state = "pending" /\ IsInit(reqs[r].kind)

\* C11: the observable connection state is connected only if the socket of
\* the session is open and the initialize handshake has completed: it is not
\* connected while the initialize request is still outstanding.
C11_ConnectedMeansHandshaken ==
  connectionState = "connected" =>
    /\ ws # 0
    /\ sock[ws] = "OPEN"
    /\ ~HandshakeOutstanding

ArmedReconnectTimers == (IF reconnectTimer THEN 1 ELSE 0) + orphanTimers

\* connect() calls of _attemptReconnect that have not returned yet
AttemptsInFlight ==
  Cardinality({k \in DOMAIN sock : waitOpen[k] = "reconnect"})
    + Cardinality({r \in Reqs : reqs[r].state = "pending" /\ reqs[r].kind = "init-reconnect"})
    + Cardinality({n \in 1..Len(micro) : micro[n].caller = "reconnect"})

\* C12: at most one reconnection cycle is active: at most one reconnect
\* timer is armed or one reconnect attempt is in flight, and the
\* scheduleReconnect of the debounce timer changes neither the attempt
\* counter nor the timer when a timer is armed or an attempt is in flight.
C12_SingleCycle ==
  /\ [](ArmedReconnectTimers + AttemptsInFlight <= 1)
  /\ [][(debounceTimer /\ ~debounceTimer' /\ ArmedReconnectTimers + AttemptsInFlight > 0) =>
          /\ reconnectAttempts' = reconnectAttempts
          /\ reconnectTimer' = reconnectTimer
          /\ orphanTimers' = orphanTimers]_vars

(***************************************************************************)
(* executeTool: outcomes                                                   *)
(***************************************************************************)
\* the promise of executeTool was rejected
Rejected(res) == res = "REJECTED"

\* the promise of executeTool was fulfilled with ToolResponse.error(...)
IsErrorResponse(res) ==
  res \in {"TOOL_NOT_FOUND", "INVALID_TOOL_ARGUMENTS", "TypeError", "TOOL_ERROR"}

\* call c leaves _executeToolInternal in this step
LeavesInternal(c) ==
  /\ calls[c].state \in {"admitted", "running"}
  /\ calls'[c].state \in {"finishing", "done"}

\* the queued calls that the step's _processQueue admits
NewlyAdmitted == {d \in Calls : calls[d].state = "queued" /\ calls'[d].state = "admitted"}

\* C13: a call of executeTool for a registered tool never ends as a rejected
\* promise: if validation fails or the callback throws or rejects, the call
\* ends with an error-flagged ToolResponse; the step in which the call leaves
\* _executeToolInternal gives its slot back (the running count goes down by
\* one, up again only for a queued call admitted in its place) and leaves the
\* session's connection state and pending requests as they were.
C13_ErrorsBecomeResponses ==
  /\ [](\A c \in Calls :
          calls[c].state = "done" /\ calls[c].def # 0 =>
            /\ ~Rejected(calls[c].result)
            /\ calls[c].result # "ok" => IsErrorResponse(calls[c].result))
  /\ [][\A c \in Calls :
          LeavesInternal(c) =>
            /\ currentExecutions' = currentExecutions - 1 + Cardinality(NewlyAdmitted)
            /\ UNCHANGED sessionVars]_vars

\* C14: executeTool with a name that is not in the registry ends at once as a
\* promise rejected with ToolNotFound; no callback is invoked, the call is not
\* queued and the running count is unchanged.
C14_UnknownToolRejects ==
  [][\A c \in Calls :
       (calls[c].state = "free" /\ calls'[c].state # "free"
          /\ tools[calls'[c].name].def = 0) =>
         /\ calls'[c].state = "done"
         /\ Rejected(calls'[c].result)
         /\ executionQueue' = executionQueue
         /\ currentExecutions' = currentExecutions
         /\ \A d \in Calls : calls'[d].state = "running" => calls[d].state = "running"]_vars

(***************************************************************************)
(* Requests received from the server: tools/call and initialize            *)
(***************************************************************************)
\* requests received in one behaviour
MaxInbound == 3

\* the params member of a tools/call request: absent, or {name, arguments}
NoParams == [present |-> FALSE, name |-> "", args |-> "empty"]

ToolCallParams ==
  {NoParams} \cup {[present |-> TRUE, name |-> n, args |-> a] : n \in Names, a \in ArgVals}

\* a request as handleMessage hands it to its handler; open: sendMessage
\* would have accepted a frame at that moment
Arrived(method) ==
  [method |-> method, id |-> TRUE, jsonrpc |-> "2.0", payload |-> "none",
   route |-> "request", call |-> 0, open |-> CanSend, state |-> "returned", sent |-> <<>>,
   conn |-> 0]

\* _handleInitialize: the frames it sends, in program order
InitializeFrames_NotifyFirst == <<"notifications/initialized", "result">>

InitializeFrames == <<"result", "notifications/initialized">>

\* 'message' event with a tools/call request that carries an id:
\* _handleRequest calls _handleToolCall(id, params) and drops the promise it
\* returns.  Destructuring params throws when the request has no params
\* member: the handler's promise is rejected before anything was sent.
HandleToolCallWith(k, p, hasId) ==
  /\ EventLoopIdle
  /\ sock[k] = "OPEN"
  /\ Len(inbound) < MaxInbound
  /\ UNCHANGED invalidMessages
  /\ IF ~p.present
     THEN /\ inbound' = Append(inbound, [Arrived("tools/call") EXCEPT !.state = "threw",
                                                                     !.id = hasId])
          /\ op' = NoOp
          /\ settled' = {}
          /\ emitted' = <<>>
          /\ UNCHANGED <<toolVars, sessionVars, delayVars>>
     ELSE /\ ExecuteToolStart(p.name, p.args)
          /\ inbound' = ToolCallReturns(
               Append(inbound, [Arrived("tools/call") EXCEPT !.call = NextCall,
                                                             !.state = "awaiting",
                                                             !.id = hasId,
                                                             !.conn = k]))

\* a tools/call request that carries an id
HandleToolCall(k, p) == HandleToolCallWith(k, p, TRUE)

\* 'message' event with an initialize request: _handleInitialize
HandleInitialize(k) ==
  /\ EventLoopIdle
  /\ sock[k] = "OPEN"
  /\ Len(inbound) < MaxInbound
  /\ inbound' = Append(inbound, SendFrames(Arrived("initialize"), InitializeFrames))
  /\ UNCHANGED invalidMessages
  /\ op' = NoOp
  /\ settled' = {}
  /\ emitted' = <<>>
  /\ UNCHANGED <<toolVars, sessionVars, delayVars>>

\* the callback of ws.send reports an error for a frame of request i:
\* sendMessage rejects with SEND_FAILED and the sender's catch handler logs it
FrameSendFails(i) ==
  /\ i \in 1..Len(inbound)
  /\ inbound[i].state = "returned"
  /\ inbound[i].sent # <<>>
  /\ inbound' = [inbound EXCEPT ![i].state = "send-failed"]
  /\ UNCHANGED invalidMessages
  /\ op' = NoOp
  /\ settled' = {}
  /\ emitted' = <<>>
  /\ UNCHANGED <<toolVars, sessionVars, delayVars>>

NextInbound ==
  \/ UserConnect
  \/ \E k \in DOMAIN sock : SocketOpen(k)
  \/ \E k \in DOMAIN sock, reason \in Reasons : SocketClose(k, reason)
  \/ \E n \in Names : RegisterTool(n)
  \/ \E k \in DOMAIN sock, p \in ToolCallParams : HandleToolCall(k, p)
  \/ \E c \in Calls : ValidateAndInvoke(c)
  \/ \E c \in Calls, out \in CallbackOutcomes : CallbackSettles(c, out)
  \/ \E c \in Calls : ProcessQueueResume(c)
  \/ ImmediateFires

SpecInbound == InitQuiet /\ [][NextInbound]_vars

NextHello ==
  \/ UserConnect
  \/ UserDisconnect
  \/ RunMicrotasks
  \/ \E k \in DOMAIN sock : AbortedSocketEvents(k)
  \/ \E k \in DOMAIN sock : SocketOpen(k)
  \/ \E k \in DOMAIN sock, reason \in Reasons : SocketClose(k, reason)
  \/ \E k \in DOMAIN sock, i \in Ids, e \in BOOLEAN : HandleResponse(k, i, e)
  \/ \E r \in Reqs : RequestTimerFires(r)
  \/ Tick
  \/ \E k \in DOMAIN sock : HandleInitialize(k)
  \/ \E i \in 1..MaxInbound : FrameSendFails(i)

SpecHello == InitQuiet /\ [][NextHello]_vars

\* the reply frames of a request
Replies(r) ==
  SelectSeq(r.sent, LAMBDA f : f \in {"result", "result-isError", "error-32601", "error-32603"})

\* C15: an inbound tools/call request with an id, whatever its params, gets
\* exactly one reply once its handler is through, unless the connection was
\* not open at that moment; the reply is a success response, flagged isError
\* when the tool failed, was not found or got invalid arguments.
C15_ToolCallAnsweredOnce ==
  \A i \in 1..Len(inbound) :
    inbound[i].method = "tools/call" =>
      /\ Len(Replies(inbound[i])) <= 1
      /\ \A n \in 1..Len(inbound[i].sent) : inbound[i].sent[n] \in {"result", "result-isError"}
      /\ (inbound[i].open /\ inbound[i].state \in {"returned", "threw", "send-failed"})
           => Len(Replies(inbound[i])) = 1
      /\ (inbound[i].call # 0 /\ inbound[i].sent # <<>>)
           => inbound[i].sent[1] = ToolCallReply(calls[inbound[i].call].result)

\* the arguments meet the schema: the declared type, the required properties,
\* and the same for every property that has a schema of its own
RECURSIVE Conforms(_, _)
Conforms(schema, data) ==
  /\ SchemaDef(schema).type # "" => DataDef(data).type = SchemaDef(schema).type
  /\ \A f \in SchemaDef(schema).required : \E p \in DataDef(data).fields : p[1] = f
  /\ \A q \in SchemaDef(schema).properties : \A p \in DataDef(data).fields :
       p[1] = q[1] => Conforms(q[2], p[2])

\* C16: when the arguments of a call fail the tool's schema (wrong declared
\* type, a missing required property, or the same in a nested property) the
\* callback is not invoked, the tool's invocation counter is unchanged and the
\* call ends with an error response reporting INVALID_TOOL_ARGUMENTS; when
\* they meet the schema the callback is invoked, once, with exactly the
\* arguments supplied, and the counter goes up by one.
C16_ValidationGuardsCallback ==
  [][\A c \in Calls :
       (calls[c].state = "admitted" /\ calls'[c].state # "admitted") =>
         IF Conforms(SchemaFor(calls[c].name), calls[c].args)
         THEN /\ calls'[c].state = "running"
              /\ calls'[c].passed = calls[c].args
              /\ calls[c].passed = "none"
              /\ \A n \in Names :
                   tools[n].def = calls[c].def => tools'[n].callCount = tools[n].callCount + 1
         ELSE /\ calls'[c].state \in {"finishing", "done"}
              /\ calls'[c].result = "INVALID_TOOL_ARGUMENTS"
              /\ calls'[c].passed = "none"
              /\ tools' = tools]_vars

\* C17: an inbound initialize request received while the session can send is
\* answered with exactly one success response, and the
\* notifications/initialized notification is handed to the socket after it
\* and nothing else; a failure reported for a frame sent leaves the session
\* state (connection, pending requests, reconnection) as it was.
C17_InitializeAnswered ==
  /\ [](\A i \in 1..Len(inbound) :
          (inbound[i].method = "initialize" /\ inbound[i].open) =>
            /\ inbound[i].sent = <<"result", "notifications/initialized">>
            /\ Len(Replies(inbound[i])) = 1)
  /\ [][\A i \in 1..Len(inbound) :
          (inbound[i].state # "send-failed" /\ inbound'[i].state = "send-failed")
            => UNCHANGED sessionVars]_vars

\* an initialize request was answered and the send of its notification failed
C17_Witness ==
  \E i \in 1..Len(inbound) :
    /\ inbound[i].method = "initialize"
    /\ inbound[i].open
    /\ inbound[i].state = "send-failed"
    /\ connected

(***************************************************************************)
(* calculateBackoff, as scheduleReconnect uses it                          *)
(***************************************************************************)
\* scheduleReconnect calls computed in one behaviour
MaxSchedules == 6
\* config.reconnectDelay and config.maxBackoff, in milliseconds
BaseDelays == {100, 1000}
MaxDelays == {50, 5000, 30000}
\* Math.random() * 0.1, in percent of the exponential delay
JitterPercents == 0..10
\* delays are kept in hundredths of a millisecond, which makes the jitter exact
Hundredths(ms) == ms * 100

\* Math.pow(2, attempt), for the attempt numbers scheduleReconnect passes (>= 0)
Pow2(n) == 2 ^ n

Min(a, b) == IF a <= b THEN a ELSE b

\* calculateBackoff(attempt, baseDelay, maxDelay) with the jitter it drew
CalculateBackoff_Unclamped(attempt, baseDelay, maxDelay, jitter) ==
  Hundredths(baseDelay * Pow2(attempt)) + baseDelay * Pow2(attempt) * jitter

CalculateBackoff(attempt, baseDelay, maxDelay, jitter) ==
  LET exponentialDelay == Hundredths(baseDelay * Pow2(attempt))
      jitterDelay == baseDelay * Pow2(attempt) * jitter
  IN Min(exponentialDelay + jitterDelay, Hundredths(maxDelay))

\* the attempt number _calculateDelay hands to calculateBackoff
BackoffAttempt(attempts) == attempts - 1

\* scheduleReconnect, from this.reconnectAttempts++ to the delay of the timer
ScheduleDelay(jitter) ==
  /\ backoff.attempts < MaxSchedules
  /\ backoff' = [backoff EXCEPT
       !.attempts = @ + 1,
       !.arg = BackoffAttempt(backoff.attempts + 1),
       !.delay = CalculateBackoff(BackoffAttempt(backoff.attempts + 1),
                                  backoff.base, backoff.max, jitter)]
  /\ UNCHANGED <<toolVars, sessionVars, op, settled, emitted, inboundVars>>

InitBackoff ==
  /\ InitAny
  /\ ~autoReconnect /\ maxAttempts = 1 /\ DOMAIN sock = 1..FewSocks
  /\ backoff \in {[NoBackoff EXCEPT !.base = b, !.max = m] : b \in BaseDelays, m \in MaxDelays}

NextBackoff == \E j \in JitterPercents : ScheduleDelay(j)

SpecBackoff == InitBackoff /\ [][NextBackoff]_vars

\* C18: the delay never exceeds maxDelay; the delay of an attempt is never
\* smaller than the delay of the attempt before it, whatever jitter of 0 to
\* 10 % each of them drew; and the attempt number the controller hands to
\* calculateBackoff is the number of attempts made before this one, counted
\* from zero.
C18_BackoffBounded ==
  /\ [](backoff.delay <= Hundredths(backoff.max))
  /\ [](backoff.attempts > 0 => backoff.arg = backoff.attempts - 1)
  /\ [][(backoff.attempts > 0 /\ backoff'.attempts = backoff.attempts + 1)
          => backoff'.delay >= backoff.delay]_vars

\* the delay has grown from one attempt to the next and has reached maxDelay
C18_Witness ==
  /\ backoff.attempts = MaxSchedules
  /\ Hundredths(backoff.base) < backoff.delay
  /\ backoff.delay = Hundredths(backoff.max)

\* C19: connect() called by the application while the session is connecting
\* or connected is rejected at once and changes nothing: the connection
\* flags and state, the socket, the heartbeat timer and the pending requests
\* are as before, and no socket is created.
C19_ConnectRejectedNoChange ==
  [][(op'.name = "connect" /\ (connecting \/ connected)) =>
       /\ op'.arg = 1
       /\ UNCHANGED <<connected, connecting, connectionState, ws, sock, waitOpen,
                      heartbeatInterval, debounceTimer, reqs, pendingRequests>>
       /\ emitted' = <<>>
       /\ settled' = {}]_vars

\* connect() was rejected on a connected session with its heartbeat armed
\* and a request pending
C19_Witness ==
  /\ op = [name |-> "connect", arg |-> 1]
  /\ connected
  /\ heartbeatInterval
  /\ Outstanding # {}

\* C20: once connect() has failed (socket error, connection timeout or
\* handshake failure: the state is error, which only the catch block of
\* connect() sets) the session is not left connected: isConnected() is false,
\* and the next connect() is accepted, not rejected as already connected.
C20_FailedConnectNotConnected ==
  connectionState = "error" =>
    /\ ~CanSend
    /\ ~AlreadyConnecting(SessionState)

\* C21: when the transport closes unexpectedly under a connected session,
\* every request pending at that moment is rejected with CONNECTION_CLOSED,
\* the pending set is empty, the heartbeat timer is stopped and the state is
\* disconnected (error, when the closure interrupts the handshake of a
\* connect() call, whose catch block runs on the rejection of the initialize
\* request); and no request is pending while the session is not connected.
C21_ClosureRejectsPending ==
  /\ [](~connected => Outstanding = {})
  /\ [][(connected /\ ~connected' /\ manual' # "disconnected") =>
          /\ \A r \in Outstanding : <<r, "CONNECTION_CLOSED">> \in settled'
          /\ \A i \in Ids : pendingRequests'[i] = 0
          /\ ~heartbeatInterval'
          /\ \/ connectionState' = "disconnected"
             \/ HandshakeOutstanding /\ connectionState' = "error"]_vars

(***************************************************************************)
(* Heartbeat                                                               *)
(***************************************************************************)
NextHeartbeat ==
  \/ NextLink
  \/ \E k \in DOMAIN sock, i \in Ids, e \in BOOLEAN : HandleResponse(k, i, e)
  \/ \E r \in Reqs : RequestTimerFires(r)
  \/ Tick
  \/ HeartbeatTick
  \/ \E k \in DOMAIN sock : PongReceived(k)
  \/ PongAges

SpecHeartbeat == InitQuiet /\ [][NextHeartbeat]_vars

\* the heartbeat of a session constructed and reconfigured with any of the
\* heartbeat intervals
InitHeartbeatConfig ==
  /\ InitTools
  /\ InitSessionWith(HeartbeatOptions)
  /\ autoReconnect = FALSE
  /\ maxAttempts = 1 /\ DOMAIN sock = 1..FewSocks
  /\ backoff = NoBackoff

NextHeartbeatConfig ==
  \/ NextLink
  \/ \E h \in HeartbeatOptions : UpdateConfig(autoReconnect, h, configRequestTimeout)
  \/ \E k \in DOMAIN sock, i \in Ids, e \in BOOLEAN : HandleResponse(k, i, e)
  \/ HeartbeatTick

SpecHeartbeatConfig == InitHeartbeatConfig /\ [][NextHeartbeatConfig]_vars

\* no acknowledgment for longer than pingTimeout: the last one is older than
\* that, or none has arrived since the connection opened that long ago
AckOverdue == pong \in {"stale", "never-late"}

\* C22: a heartbeat tick on a connected session whose last liveness
\* acknowledgment is overdue (the peer stopped acknowledging, or has never
\* acknowledged since the connection opened) forces a disconnect.
C22_OverdueAckDisconnects ==
  [][(op'.name = "heartbeat" /\ IsConnected(SessionState) /\ AckOverdue) =>
       /\ op'.arg = 1
       /\ ~connected'
       /\ manual' = "disconnected"]_vars

(***************************************************************************)
(* handleMessage: validation and routing of an inbound frame               *)
(***************************************************************************)
\* frames received in one behaviour
MaxFrames == 2

\* the method member of a frame: none, "", 5, a name without a handler, and
\* a name whose handler was registered with registerHandler
FrameMethods == {"absent", "empty", "number", "unknown", "custom"}

\* what a custom handler does: return, throw an Error, throw undefined
HandlerOutcomes == {"returns", "throws", "throwsNullish"}

\* the frames: jsonrpc "2.0" or "1.0", the method, the id (0: no id member)
\* and a result or error member
Frames ==
  [jsonrpc : {"2.0", "1.0"}, method : FrameMethods, id : {0, 1},
   payload : {"none", "result", "error"}]

\* _isValidJsonRpc
IsValidJsonRpc(f) ==
  /\ f.jsonrpc = "2.0"
  /\ f.method \in {"empty", "unknown", "custom"} \/ f.payload # "none"

\* handleMessage: `if (parsedMessage.method)`
MethodTruthy(f) == f.method \in {"number", "unknown", "custom"}

\* handleMessage: where the frame goes, or the error it throws
Route(f) ==
  IF ~IsValidJsonRpc(f) THEN "INVALID_JSONRPC"
  ELSE IF MethodTruthy(f) THEN "request"
  ELSE IF f.payload # "none" THEN "response"
  ELSE "UNKNOWN_MESSAGE_TYPE"

\* _handleRequest: the error response it sends
MissingHandlerFrames_Always(f) == <<"error-32601">>

MissingHandlerFrames(f) == IF f.id # 0 THEN <<"error-32601">> ELSE <<>>

\* the catch blocks of _handleRequest and handleMessage: the error response
HandlerErrorFrames(f) ==
  IF f.id # 0 /\ MethodTruthy(f) THEN <<"error-32603">> ELSE <<>>

\* the frames handleMessage sends for a frame that is not routed as a response
FramesFor(f, outcome) ==
  IF Route(f) # "request" THEN HandlerErrorFrames(f)
  ELSE IF f.method # "custom" THEN MissingHandlerFrames(f)
  ELSE IF outcome = "returns" THEN <<>>
  ELSE HandlerErrorFrames(f)

\* handleMessage emits 'error' from its catch block
EmitsError(f, outcome) ==
  \/ Route(f) \in {"INVALID_JSONRPC", "UNKNOWN_MESSAGE_TYPE"}
  \/ Route(f) = "request" /\ f.method = "custom" /\ outcome = "throwsNullish"

\* 'message' event of socket k with frame f
HandleMessage(k, f, outcome) ==
  /\ EventLoopIdle
  /\ sock[k] = "OPEN"
  /\ Len(inbound) < MaxFrames
  /\ invalidMessages' = IF Route(f) = "INVALID_JSONRPC" THEN invalidMessages + 1
                        ELSE invalidMessages
  /\ LET threw == Route(f) = "request" /\ f.method = "custom" /\ outcome # "returns"
         rec == [Arrived(f.method) EXCEPT !.id = (f.id # 0), !.route = Route(f),
                                          !.jsonrpc = f.jsonrpc, !.payload = f.payload,
                                          !.state = IF threw THEN "threw" ELSE @]
     IN IF Route(f) = "response"
        THEN /\ StepSession("response", f.id,
                  IF f.id \in Ids
                  THEN DrainMicro(HandleResponseMsg(SessionState, f.id, f.payload = "error"))
                  ELSE SessionState)
             /\ inbound' = Append(inbound, rec)
        ELSE /\ StepSession("frame", 0,
                  IF EmitsError(f, outcome) THEN Emit(SessionState, "error")
                  ELSE SessionState)
             /\ inbound' = Append(inbound, SendFrames(rec, FramesFor(f, outcome)))

\* the texts of frames that JSON.parse rejects or parses to null
Texts == {"notJson", "null"}

\* safeJsonParse(jsonStr): the default value null when JSON.parse throws
SafeJsonParse(text) == IF text = "notJson" THEN "null" ELSE text

\* 'message' event of socket k with a text for which `!parsedMessage` holds:
\* handleMessage throws INVALID_JSON before it counts or validates the message
HandleText(k, text) ==
  /\ EventLoopIdle
  /\ sock[k] = "OPEN"
  /\ Len(inbound) < MaxFrames
  /\ SafeJsonParse(text) = "null"
  /\ StepSession("frame", 0, Emit(SessionState, "error"))
  /\ inbound' = Append(inbound, [Arrived("absent") EXCEPT !.id = FALSE, !.jsonrpc = "none",
                                                           !.payload = text,
                                                           !.route = "INVALID_JSON"])
  /\ UNCHANGED invalidMessages

NextFrames ==
  \/ UserConnect
  \/ \E k \in DOMAIN sock : SocketOpen(k)
  \/ \E k \in DOMAIN sock, reason \in Reasons : SocketClose(k, reason)
  \/ \E k \in DOMAIN sock, f \in Frames, o \in HandlerOutcomes : HandleMessage(k, f, o)

SpecFrames == InitQuiet /\ [][NextFrames]_vars

\* _handlePing and _handleToolsList: the frame they send
SuccessFrames == <<"result">>

\* 'message' event with a ping, initialize or tools/list message, with or
\* without an id: _handleRequest calls the handler with (id, params)
HandleBuiltin(k, method, hasId) ==
  /\ EventLoopIdle
  /\ sock[k] = "OPEN"
  /\ Len(inbound) < MaxFrames
  /\ inbound' = Append(inbound,
        SendFrames([Arrived(method) EXCEPT !.id = hasId],
                   IF method = "initialize" THEN InitializeFrames ELSE SuccessFrames))
  /\ UNCHANGED invalidMessages
  /\ op' = NoOp
  /\ settled' = {}
  /\ emitted' = <<>>
  /\ UNCHANGED <<toolVars, sessionVars, delayVars>>

\* messages with and without an id for the built-in handlers and for custom
\* and unknown methods
BuiltinMethods == {"ping", "initialize", "tools/list"}

\* well-formed messages whose method is not built in
PlainRequests ==
  {f \in Frames : f.jsonrpc = "2.0" /\ f.method \in {"unknown", "custom"} /\ f.payload = "none"}

\* with two messages no call waits behind a queued one: no setImmediate
NextNotify ==
  \/ UserConnect
  \/ \E k \in DOMAIN sock : SocketOpen(k)
  \/ \E n \in Names : RegisterTool(n)
  \/ \E k \in DOMAIN sock, f \in PlainRequests, o \in HandlerOutcomes : HandleMessage(k, f, o)
  \/ \E k \in DOMAIN sock, m \in BuiltinMethods, hasId \in BOOLEAN : HandleBuiltin(k, m, hasId)
  \/ \E k \in DOMAIN sock, p \in ToolCallParams, hasId \in BOOLEAN :
       Len(inbound) < MaxFrames /\ HandleToolCallWith(k, p, hasId)
  \/ \E c \in Calls : ValidateAndInvoke(c)
  \/ \E c \in Calls : CallbackSettles(c, "ok")
  \/ \E c \in Calls : ProcessQueueResume(c)

SpecNotify == InitQuiet /\ [][NextNotify]_vars

NextParse ==
  \/ NextFrames
  \/ \E k \in DOMAIN sock, text \in Texts : HandleText(k, text)
  \/ \E n \in Names : RegisterTool(n)

SpecParse == InitQuiet /\ [][NextParse]_vars

ErrorFrames(r) == SelectSeq(r.sent, LAMBDA x : x \in {"error-32601", "error-32603"})

\* the frame received in this step
Received == inbound'[Len(inbound')]

CarriesMethod(r) == r.method \notin {"absent", "number"}

\* the frame fails the shape check: no jsonrpc "2.0", or none of method,
\* result and error
BadShape(r) == r.jsonrpc # "2.0" \/ (~CarriesMethod(r) /\ r.payload = "none")

\* C24: a frame without jsonrpc "2.0", or with none of method / result /
\* error, is reported as INVALID_JSONRPC (an 'error' event), is not handed to
\* a method handler and completes no pending request; a frame that passes
\* the check is routed as a request when it has a method and as a response
\* otherwise.
C24_ShapeCheckedThenRouted ==
  /\ [](\A i \in 1..Len(inbound) :
          LET r == inbound[i]
          IN /\ BadShape(r) => r.route = "INVALID_JSONRPC"
             /\ (~BadShape(r) /\ CarriesMethod(r)) => r.route = "request"
             /\ (~BadShape(r) /\ ~CarriesMethod(r)) => r.route = "response")
  /\ [][(Len(inbound') = Len(inbound) + 1 /\ BadShape(Received)) =>
          /\ settled' = {}
          /\ pendingRequests' = pendingRequests
          /\ \E n \in 1..Len(emitted') : emitted'[n] = "error"]_vars


(***************************************************************************)
(* cancel() of the reconnection controller                                 *)
(***************************************************************************)

\* C25: cancel(), in any state of the controller, leaves no reconnect timer
\* armed (handle or lost handle), the attempt counter at zero and no cycle
\* active, emits no give-up event, and as long as the session has not asked
\* for a new scheduling no cycle becomes active, no timer is armed and no
\* attempt is started.
C25_CancelStopsReconnection ==
  /\ [][op'.name = "cancel" =>
          /\ ~reconnectTimer'
          /\ reconnectAttempts' = 0
          /\ ~isReconnecting'
          /\ GiveUps(emitted') = 0]_vars
  /\ [](cancelled => ~reconnectTimer /\ ~isReconnecting /\ reconnectAttempts = 0)
  /\ [][(cancelled /\ cancelled') => op'.name # "attempt"]_vars


(***************************************************************************)
(* The attempt counter of the reconnection controller                      *)
(***************************************************************************)
Reconnected(ev) == \E n \in 1..Len(ev) : ev[n] = "reconnected"

\* the attempts of the current cycle: those started (failed or in flight) and
\* the one the armed timer will start
CycleAttempts == cycleCalls + IF reconnectTimer THEN 1 ELSE 0

\* C26: a successful reconnect attempt emits one 'reconnected' event whose
\* `attempts` is the number of attempts made in the cycle, ends the cycle and
\* resets the counter; the counter always equals the number of attempts of
\* the current cycle and never exceeds maxAttempts.
C26_CounterCountsAttempts ==
  /\ [][Reconnected(emitted') =>
          /\ reported' = <<cycleCalls>>
          /\ cycleCalls >= 1
          /\ ~isReconnecting' /\ reconnectAttempts' = 0 /\ ~reconnectTimer']_vars
  /\ [](reconnectAttempts <= maxAttempts)
  /\ [](reconnectAttempts = CycleAttempts)


(***************************************************************************)
(* The tool registry                                                       *)
(***************************************************************************)
\* a non-empty name, a non-empty description and a callable callback
ValidRegistration(n, d, cb) ==
  /\ n \notin {"", "notAString"}
  /\ d \notin {"", "notAString"}
  /\ cb = "function"

\* C27: registerTool with a non-empty name, a non-empty description and a
\* callable callback returns and the tool is in the registry afterwards, with
\* that description and schema; with any other parameters it throws and the
\* registry, the definition already under that name included, is unchanged.
C27_RegisterValidates ==
  [][\A n \in NameArgs, d \in Descriptions, i \in SchemaArgs, cb \in Callbacks :
       RegisterToolWith(n, d, i, cb) =>
         IF ValidRegistration(n, d, cb)
         THEN /\ op'.arg = 0
              /\ RegistryHas(tools', n)
              /\ tools'[n].description = d
              /\ emitted' = <<"tool-registered">>
         ELSE /\ op'.arg = 1
              /\ tools' = tools
              /\ emitted' = <<>>]_vars

\* a rejected registerTool call on a registry that holds a definition
C27_Witness ==
  /\ op = [name |-> "registerTool", arg |-> 1]
  /\ RegistryHas(tools, "echo")

\* the entries tools/list must show: the parameters of the latest successful
\* registerTool of every name whose latest successful operation it is
LatestRegistrations ==
  {[name |-> n, description |-> lastReg[n].description, inputSchema |-> lastReg[n].schema] :
     n \in {m \in Names : lastReg[m].def # 0}}

\* C28: a name is in the registry, and listed by tools/list with its name,
\* description and input schema, exactly when the last successful operation
\* on it was a registerTool; unregisterTool of a registered name returns true
\* and removes it, of an absent name returns false and changes nothing.
C28_RegistryFollowsLastOperation ==
  /\ [](\A n \in Names : RegistryHas(tools, n) <=> lastReg[n].def # 0)
  /\ [](GetToolsListResponse(tools) = LatestRegistrations)
  /\ [][\A n \in NameArgs :
          UnregisterTool(n) =>
            IF RegistryHas(tools, n)
            THEN /\ op'.arg = 0
                 /\ ~RegistryHas(tools', n)
                 /\ GetToolsListResponse(tools') = {}
            ELSE /\ op'.arg = 1
                 /\ tools' = tools
                 /\ emitted' = <<>>]_vars

\* a name registered, unregistered and registered again with another description
C28_Witness ==
  /\ RegistryHas(tools, "echo")
  /\ tools["echo"].def = MaxRegs
  /\ tools["echo"].description = "d2"
  /\ op = [name |-> "unregisterTool", arg |-> 1]


(***************************************************************************)
(* The execution queue                                                     *)
(***************************************************************************)
\* a queued call is being dequeued: a _processQueue run is scheduled by
\* setImmediate, is about to resume in its finally block, or has just taken a
\* call that has not reached its callback yet
DequeueUnderWay ==
  \/ immediates > 0
  \/ \E c \in Calls : calls[c].state = "finishing"
  \/ \E c \in Calls : calls[c].state = "admitted" /\ calls[c].viaQueue

\* C29: the dispatcher is never left with a non-empty queue and a free
\* capacity slot while no queued call is being dequeued, whether or not
\* another queued call is still running.
C29_QueueDrainsToCeiling ==
  (executionQueue # <<>> /\ ~CeilingReached(currentExecutions)) => DequeueUnderWay


\* every call placed in the execution queue leaves it and completes
QueuedCallsFinish ==
  \A c \in 1..MaxCalls :
    (c \in Calls /\ calls[c].state = "queued") ~> (calls[c].state = "done")

\* a call that went through the queue completes with a result or with an
\* error-flagged response
QueuedCallsAnswered ==
  \A c \in 1..MaxCalls :
    (c \in Calls /\ calls[c].state = "queued") ~>
      (calls[c].state = "done" /\ (calls[c].result = "ok" \/ IsErrorResponse(calls[c].result)))

\* C30: provided every running callback settles, every call placed in the
\* execution queue is eventually dequeued and completed with a result or an
\* error-flagged response, also when its tool was unregistered while it
\* waited.
C30_QueuedCallsComplete == QueuedCallsFinish /\ QueuedCallsAnswered


(***************************************************************************)
(* What schedules a reconnection                                           *)
(***************************************************************************)
\* nothing of the reconnection machinery is armed or counting
NothingScheduled ==
  /\ ~debounceTimer /\ ~isReconnecting /\ ~reconnectTimer
  /\ orphanTimers = 0 /\ reconnectAttempts = 0

\* C31: as long as the session has never reached connected, no reconnection is
\* scheduled, whatever connect() calls failed; the debounced reconnection is
\* armed only by a step in which a connected session is closed otherwise than
\* by disconnect(); a step that leaves the session connected (a handshake
\* failure included) arms nothing and, unless it is an attempt of a running
\* cycle that failed, leaves the reconnection controller as it was.  A cycle of
\* the controller starts only when that debounced reconnection fires.
C31_OnlyClosureSchedules ==
  /\ [](~everConnected => NothingScheduled)
  /\ [][(debounceTimer' /\ ~debounceTimer) =>
          (connected /\ ~connected' /\ ws' = ws /\ autoReconnect)]_vars
  /\ [][(connected' /\ connectionState # "error" /\ connectionState' = "error") =>
          (debounceTimer' = debounceTimer /\ (~isReconnecting => UNCHANGED reconVars))]_vars
  /\ [][(isReconnecting' /\ ~isReconnecting) => (debounceTimer /\ ~debounceTimer')]_vars


(***************************************************************************)
(* The heartbeat of a session that reconnects automatically                *)
(***************************************************************************)
\* with a single socket no reconnect timer loses its handle
NextPulse ==
  \/ NextLink
  \/ \E k \in DOMAIN sock, i \in Ids, e \in BOOLEAN :
       pendingRequests[i] # 0 /\ HandleResponse(k, i, e)
  \/ DebounceFires
  \/ ReconnectTimerFires
  \/ \E r \in Reqs : RequestTimerFires(r)
  \/ Tick
  \/ HeartbeatTick
  \/ \E k \in DOMAIN sock : PongReceived(k)
  \/ PongAges

SpecPulse == InitLive /\ [][NextPulse]_vars

\* a reconnection is scheduled or under way
ReconnectionScheduled == debounceTimer \/ isReconnecting \/ reconnectTimer

\* C32: with auto-reconnect enabled, the disconnect the heartbeat forces on a
\* liveness timeout leaves a reconnection scheduled.
C32_HeartbeatDisconnectReconnects ==
  [][(op'.name = "heartbeat" /\ op'.arg = 1 /\ autoReconnect) =>
       (~connected' /\ ReconnectionScheduled')]_vars

\* C33: a session configured with a heartbeat interval that is zero or negative
\* has no heartbeat: no heartbeat timer is armed, on connect or on
\* reconfiguration, and no heartbeat ping is sent.
C33_NonPositiveIntervalDisablesHeartbeat ==
  /\ [](heartbeatOption <= 0 => ~heartbeatInterval)
  /\ [][op'.name = "heartbeat" => heartbeatOption > 0]_vars

\* reconfiguration of a session between its connections, closures and requests
InitReconfigure ==
  /\ InitTools
  /\ InitSession
  /\ maxAttempts = MaxAttemptsCfg /\ DOMAIN sock = 1..FewSocks
  /\ backoff = NoBackoff

NextReconfigure ==
  \/ NextLink
  \/ \E a \in BOOLEAN, t \in RequestTimeoutOptions \cup {configRequestTimeout} :
       UpdateConfig(a, heartbeatOption, t)
  \/ \E k \in DOMAIN sock, i \in Ids, e \in BOOLEAN :
       pendingRequests[i] # 0 /\ HandleResponse(k, i, e)
  \/ DebounceFires
  \/ ReconnectTimerFires
  \/ UserSendRequest(0)
  \/ \E r \in Reqs : RequestTimerFires(r)
  \/ Tick

SpecReconfigure == InitReconfigure /\ [][NextReconfigure]_vars

\* the requests registered by the step
NewRequests == {r \in Reqs : reqs'[r].state = "pending" /\ reqs[r].state # "pending"}

\* C35: after updateConfig the new values govern: with autoReconnect disabled
\* nothing of a reconnection is scheduled any more (no cycle starts, no
\* attempt of a running cycle is counted or given a timer), with autoReconnect
\* enabled the debounced reconnection that an unexpected closure armed starts
\* a cycle when it fires on the disconnected session, and the timer of a
\* request sent afterwards runs for the configured requestTimeout.
C35_ReconfigurationGoverns ==
  /\ [][(~autoReconnect /\ ~autoReconnect') =>
          /\ ~(reconnectTimer' /\ ~reconnectTimer)
          /\ ~(isReconnecting' /\ ~isReconnecting)
          /\ reconnectAttempts' <= reconnectAttempts]_vars
  /\ [][(autoReconnect /\ debounceTimer /\ ~debounceTimer' /\ ~connected' /\ ws' = ws
          /\ ~isReconnecting) => isReconnecting']_vars
  /\ [][\A r \in NewRequests : reqs'[r].delay = configRequestTimeout]_vars

\* C34: a frame that is not parseable JSON increments the invalid-message
\* counter and raises an error event; the connection state, the pending
\* requests and the tool registry stay as they were and no frame is sent.
C34_UnparseableFrameCounted ==
  [][(Len(inbound') = Len(inbound) + 1 /\ Received.route = "INVALID_JSON"
       /\ Received.payload = "notJson") =>
       /\ invalidMessages' = invalidMessages + 1
       /\ \E n \in 1..Len(emitted') : emitted'[n] = "error"
       /\ UNCHANGED <<connected, connecting, connectionState, ws, sock>>
       /\ UNCHANGED <<pendingRequests, tools>>
       /\ settled' = {}
       /\ Received.sent = <<>>]_vars

\* C36: the reply to a tools/call request is transmitted only over the
\* connection the request arrived on: when that connection has closed before
\* the execution finished, the execution still ends but nothing is transmitted
\* for the request, on no later connection either.
C36_ReplyOnArrivalConnection ==
  [][\A i \in 1..Len(inbound) :
       (inbound[i].state = "awaiting" /\ inbound'[i].state # "awaiting") =>
         /\ calls'[inbound[i].call].state = "done"
         /\ inbound'[i].sent # <<>> => inbound[i].conn = ws]_vars

\* C37: the events of a superseded socket (a socket other than the one the
\* latest connect() created, whose close or error/close events are delivered
\* now) do not change the current session: it is not marked disconnected, its
\* pending requests are not cancelled and no reconnection is scheduled.
C37_SupersededSocketIgnored ==
  [][\A k \in DOMAIN sock :
       (ws # 0 /\ ws # k /\ ws' = ws /\ sock[k] # "FREE" /\ sock'[k] = "FREE") =>
         /\ connected' = connected
         /\ connecting' = connecting
         /\ pendingRequests' = pendingRequests
         /\ settled' = {}
         /\ debounceTimer' = debounceTimer
         /\ UNCHANGED <<isReconnecting, reconnectAttempts, reconnectTimer>>]_vars

\* C38: while the session is connected the reconnection controller starts no
\* connection attempt (its timer callback calls no connect()), counts no
\* failed attempt and emits neither reconnect-failed nor reconnect-give-up.
C38_NoAttemptWhileConnected ==
  [][(connected /\ op'.name = "attempt") =>
       /\ cycleCalls' <= cycleCalls
       /\ reconnectAttempts' <= reconnectAttempts
       /\ \A n \in 1..Len(emitted') :
            emitted'[n] \notin {"reconnect-failed", "reconnect-give-up"}]_vars

\* the frames that answer a request: success and error responses
ResponseFrames == {"result", "result-isError", "error-32601", "error-32603"}

\* C39: a message without an id (a notification) never causes a response
\* frame, success or error, to be sent, whatever its method: ping, initialize,
\* tools/list, tools/call, a custom handler or no handler.
C39_NotificationGetsNoResponse ==
  \A i \in 1..Len(inbound) :
    (~inbound[i].id /\ inbound[i].route = "request") =>
      \A n \in 1..Len(inbound[i].sent) : inbound[i].sent[n] \notin ResponseFrames

\* C40: from the return of disconnect() until connect() is called again the
\* connection state is disconnected, isConnected() is false and no heartbeat
\* timer is armed, also when disconnect() was called while a connect() was
\* waiting for its socket to open or for the handshake.
C40_DisconnectedUntilConnect ==
  afterDisconnect =>
    /\ connectionState = "disconnected"
    /\ ~IsConnected(SessionState)
    /\ ~heartbeatInterval

====
